---- MODULE Spec2Model ----
(***************************************************************************)
(* Order / inventory workflow of the voucher bot.                          *)
(*                                                                         *)
(* The two sheets the workflow uses (Categories, Orders) are tables of     *)
(* rows; a row is a mapping from the sheet's column names to string cells. *)
(* Every handler is an async function: it runs to its next await, and the  *)
(* store call it awaits takes effect at some later instant, so handlers    *)
(* interleave at every store call.  Spec lets approvals and declines       *)
(* interleave; SeqSpec, CatalogSpec and SubmitSpec run one handler at a    *)
(* time from its event to its end.                                         *)
(***************************************************************************)
EXTENDS Integers, Sequences, FiniteSets, TLC

\* ---------------------------------------------------------------- bounds
MaxOrders == 2      \* orders ever submitted
MaxCodes == 3       \* voucher code instances ever typed in by the admin
MaxBatch == 2       \* codes in one add-stock message
MaxQty == 2         \* largest quantity a user asks for
MaxSessionOrders == 1   \* orders submitted in PartSpec and IndexSpec
MaxCats == 2        \* rows of the Categories sheet
BigQty == 10        \* a quantity typed in at the custom quantity prompt

\* ------------------------------------------------------------- constants
ADMIN_ID == "admin"
ORDERS_NOTIFY_CHANNEL_ID == "@OrdersNotify"
Users == {"u1", "u2"}
Senders == Users \cup {ADMIN_ID}
Procs == {"h1", "h2"}           \* handler invocations that may be in flight
CodeTexts == {"A", "B"}         \* what a voucher code can read
FaceValues == {"500"}           \* face values the admin types
BasePrice == "39.00"            \* price.toFixed(2) of the price the admin types
Undefined == "undefined"        \* an absent cell (row[i] beyond the row's end)

\* ------------------------------------------------------------ variables
VARIABLES
  categories,   \* the Categories sheet: sequence of rows below the header
  orders,       \* the Orders sheet
  users,        \* the Users sheet
  userStates,   \* the in-memory session map
  procs,        \* handler invocations suspended at an await
  notified,     \* per order: how many approval / channel messages were sent
  nextSerial,   \* history: instance number of the next code typed in
  last          \* history (SeqSpec): the handler that ran last, its outcome
                \* and the messages it handed to the messenger

vars == <<categories, orders, users, userStates, procs, notified, nextSerial, last>>

\* --------------------------------------------------------- cell helpers
NumRange == 0..(MaxCodes + MaxQty + 12)

\* parseInt / ToNumber of a decimal cell, and Number.prototype.toString
IsNumStr(s) == \E n \in NumRange : ToString(n) = s
StrNum(s) == CHOOSE n \in NumRange : ToString(n) = s

RECURSIVE Digits(_)
Digits(n) == IF n < 10 THEN <<n>> ELSE Digits(n \div 10) \o <<n % 10>>

RECURSIVE LexLess(_, _)
LexLess(x, y) ==
  IF Len(y) = 0 THEN FALSE
  ELSE IF Len(x) = 0 THEN TRUE
  ELSE IF x[1] # y[1] THEN x[1] < y[1]
  ELSE LexLess(Tail(x), Tail(y))

\* a < b of JavaScript on two cells read from the sheet: both are strings,
\* so the comparison is by code units; undefined compares false.
JsStrLess(a, b) ==
  IF a = Undefined \/ b = Undefined THEN FALSE
  ELSE IF IsNumStr(a) /\ IsNumStr(b) THEN LexLess(Digits(StrNum(a)), Digits(StrNum(b)))
  ELSE a = "" /\ b # ""

\* n < b of JavaScript with a number on the left: b is converted to a number
JsNumLess(n, b) == IsNumStr(b) /\ n < StrNum(b)

\* a - n of JavaScript on a cell and a number, then toString()
JsMinusStr(a, n) == IF IsNumStr(a) THEN ToString(StrNum(a) - n) ELSE "NaN"

\* A code cell is the text of the cell as a sequence of tokens: voucher
\* codes (txt, and the instance number id as history) and line breaks.
NL == [txt |-> "\n", id |-> 0]
Code(t, i) == [txt |-> t, id |-> i]

\* Array.prototype.join('\n')
RECURSIVE JoinNL(_)
JoinNL(codes) ==
  IF Len(codes) = 0 THEN <<>>
  ELSE IF Len(codes) = 1 THEN <<codes[1]>>
  ELSE <<codes[1], NL>> \o JoinNL(Tail(codes))

IsCodeToken(t) == t.txt # "\n"

\* cell ? cell.split('\n').filter(c => c.trim().length > 0) : []
SplitCodes(cell) == SelectSeq(cell, IsCodeToken)

Ids(codes) == {codes[i].id : i \in 1..Len(codes)}

\* ------------------------------------------------------------ the sheets
\* index.js:464 documents the Categories columns in this order
CategoryHeaders ==
  <<"CategoryID", "Value", "Price1", "Price2", "Price3", "Price4", "Price5",
    "Price10", "Price20Plus", "Stock", "VoucherCodes">>

\* the order row submitOrder builds, under the column names approve reads
OrderHeaders ==
  <<"OrderID", "UserID", "UserName", "Category", "Quantity", "Total", "UTR",
    "Status", "VoucherCodeDelivered", "CreatedAt">>

\* the Users columns, in the order of the row appended at index.js:370
UserHeaders == <<"UserID", "Name", "JoinedAt", "Status", "Verified">>

CodeColumns == {"VoucherCodes", "VoucherCodeDelivered"}

Pos(headers, h) == CHOOSE i \in 1..Len(headers) : headers[i] = h

\* getRows: obj[header] = row[i]; a cell beyond the end of the row is absent
RowOf(headers, values) ==
  [h \in {headers[i] : i \in 1..Len(headers)} |->
     IF Pos(headers, h) <= Len(values) THEN values[Pos(headers, h)]
     ELSE IF h \in CodeColumns THEN <<>> ELSE Undefined]

\* rows.findIndex(row => row[col] === val) + 1, 0 when there is none
FindIndex(rows, col, val) ==
  IF \E i \in 1..Len(rows) : rows[i][col] = val
  THEN CHOOSE i \in 1..Len(rows) :
         /\ rows[i][col] = val
         /\ \A j \in 1..(i - 1) : rows[j][col] # val
  ELSE 0

\* updateRow up to its await of values.update: the row it will write
MergeRow(row, patch) ==
  [h \in DOMAIN row |-> IF h \in DOMAIN patch THEN patch[h] ELSE row[h]]

\* values.update at A{rowIndex + 2}: the row at that position is overwritten
WriteRowAt(rows, i, row) ==
  IF i <= Len(rows) THEN [rows EXCEPT ![i] = row] ELSE Append(rows, row)

OrderId(n) == "SVH-" \o ToString(n)
OrderIds == {OrderId(n) : n \in 1..MaxOrders}

\* ------------------------------------------------------- records in use
NoSession ==
  [state |-> "none", categoryId |-> "", temp_cat_value |-> "", qty |-> 0,
   totalCost |-> "", proofId |-> "", answer |-> 0, tier |-> "", dmTargetId |-> 0]

BlankCategory == RowOf(CategoryHeaders, <<>>)
BlankOrder == RowOf(OrderHeaders, <<>>)

\* the locals of a handler invocation; pc names the await it is suspended at
Idle ==
  [pc |-> "idle", from |-> "", orderId |-> "", order |-> BlankOrder, catId |-> "",
   released |-> <<>>, remaining |-> <<>>, stock |-> "", idx |-> 0, qty |-> 0,
   crow |-> BlankCategory, orow |-> BlankOrder]

Msg(to, kind, orderId, codes) ==
  [to |-> to, kind |-> kind, orderId |-> orderId, codes |-> codes]

NoEvent == [op |-> "none", orderId |-> "", res |-> "", sent |-> {}]

\* the program state the handlers act on
State ==
  [categories |-> categories, orders |-> orders, users |-> users,
   userStates |-> userStates, notified |-> notified, nextSerial |-> nextSerial, last |-> NoEvent]

\* bot.sendMessage / bot.sendPhoto
Say(s, m) == [s EXCEPT !.last.sent = @ \cup {m}]

\* a handler returns: its invocation is over
Return(s, l, op, res) ==
  [s |-> [s EXCEPT !.last = [@ EXCEPT !.op = op, !.orderId = l.orderId, !.res = res]],
   l |-> Idle]

Goto(s, l) == [s |-> s, l |-> l]

\* ------------------------------------------ approve (part_000:544-604)
\* The steps of the adm_approve_ branch, one per await of a store call.
\* Each takes the program state s and the invocation's locals l and gives
\* the state and locals after the step.

\* a guard that turns away declined orders only
NotPendingLoose(order) == order.Status = "Declined"

\* orderToApprove.Status !== 'Pending'
NotPending(order) == order.Status # "Pending"

\* const orders = await getRows('Orders'); ... find ... guard
approveReadOrders(s, l) ==
  LET i == FindIndex(s.orders, "OrderID", l.orderId) IN
  IF i = 0 \/ NotPending(s.orders[i])
  THEN Return(Say(s, Msg(l.from, "notFoundOrProcessed", l.orderId, <<>>)),
              l, "approve", "notFoundOrProcessed")
  ELSE Goto(s, [l EXCEPT !.pc = "ap_readCategories", !.order = s.orders[i]])

\* a splice that takes the newest codes instead of the oldest
ReleasedFromEnd(codes, q) == SubSeq(codes, Len(codes) - q + 1, Len(codes))

\* voucherCodes.splice(0, parseInt(Quantity)): the codes taken out
Released(codes, q) == SubSeq(codes, 1, q)

\* what splice leaves in voucherCodes
Remainder(codes, q) == SubSeq(codes, q + 1, Len(codes))

\* an approve that delivers what the pool holds when it holds too little
approveReadCategoriesPartial(s, l) ==
  LET i == FindIndex(s.categories, "CategoryID", l.order.Category) IN
  IF i = 0
  THEN Return(Say(s, Msg(l.from, "stockLow", l.orderId, <<>>)), l, "approve", "stockLow")
  ELSE
    LET cat == s.categories[i]
        voucherCodes == SplitCodes(cat.VoucherCodes)
        want == StrNum(l.order.Quantity)
        q == IF want <= Len(voucherCodes) THEN want ELSE Len(voucherCodes)
    IN Goto(s, [l EXCEPT !.pc = "ap_findCategory",
                         !.catId = cat.CategoryID,
                         !.released = Released(voucherCodes, q),
                         !.remaining = Remainder(voucherCodes, q),
                         !.stock = JsMinusStr(cat.Stock, q)])

\* const categories = await getRows('Categories'); ... both stock checks,
\* then the codes to release and the row values to write
approveReadCategories(s, l) ==
  LET i == FindIndex(s.categories, "CategoryID", l.order.Category) IN
  IF i = 0
  THEN Return(Say(s, Msg(l.from, "stockLow", l.orderId, <<>>)), l, "approve", "stockLow")
  ELSE
    LET cat == s.categories[i]
        voucherCodes == SplitCodes(cat.VoucherCodes)
        q == StrNum(l.order.Quantity)
    IN
    IF JsStrLess(cat.Stock, l.order.Quantity)
    THEN Return(Say(s, Msg(l.from, "stockLow", l.orderId, <<>>)), l, "approve", "stockLow")
    ELSE IF JsNumLess(Len(voucherCodes), l.order.Quantity)
    THEN Return(Say(s, Msg(l.from, "insufficientCodes", l.orderId, <<>>)),
                l, "approve", "insufficientCodes")
    ELSE Goto(s, [l EXCEPT !.pc = "ap_findCategory",
                           !.catId = cat.CategoryID,
                           !.released = Released(voucherCodes, q),
                           !.remaining = Remainder(voucherCodes, q),
                           !.stock = JsMinusStr(cat.Stock, q)])

\* the patch approve hands to updateRow('Categories', ...)
CategoryPatch(stock, codes) == [Stock |-> stock, VoucherCodes |-> JoinNL(codes)]

\* updateRow('Categories', 'CategoryID', id, patch) up to values.update;
\* when no row matches, updateRow returns false and approve goes on
approveFindCategory(s, l) ==
  LET i == FindIndex(s.categories, "CategoryID", l.catId) IN
  IF i = 0
  THEN Goto(s, [l EXCEPT !.pc = "ap_findOrder"])
  ELSE Goto(s, [l EXCEPT !.pc = "ap_writeCategory", !.idx = i,
                         !.crow = MergeRow(s.categories[i],
                                           CategoryPatch(l.stock, l.remaining))])

\* values.update of the category row
approveWriteCategory(s, l) ==
  Goto([s EXCEPT !.categories = WriteRowAt(@, l.idx, l.crow)],
       [l EXCEPT !.pc = "ap_findOrder", !.idx = 0, !.crow = BlankCategory])

\* the patch approve hands to updateRow('Orders', ...)
ApprovedPatch(codes) == [Status |-> "Successful", VoucherCodeDelivered |-> JoinNL(codes)]

\* the three messages after the order update (600-604)
approveNotify(s, l) ==
  LET s1 == Say(s, Msg(l.order.UserID, "orderApproved", l.orderId, l.released))
      s2 == Say(s1, Msg(l.from, "approved", l.orderId, <<>>))
      s3 == Say(s2, Msg(ORDERS_NOTIFY_CHANNEL_ID, "channel", l.orderId, <<>>))
  IN [s3 EXCEPT !.notified[l.orderId] =
        [user |-> @.user + 1, channel |-> @.channel + 1]]

\* updateRow('Orders', 'OrderID', orderId, patch) up to values.update;
\* when no row matches, updateRow returns false and approve goes on to notify
approveFindOrder(s, l) ==
  LET i == FindIndex(s.orders, "OrderID", l.orderId) IN
  IF i = 0
  THEN Return(approveNotify(s, l), l, "approve", "delivered")
  ELSE Goto(s, [l EXCEPT !.pc = "ap_writeOrder", !.idx = i,
                         !.orow = MergeRow(s.orders[i], ApprovedPatch(l.released))])

\* values.update of the order row, then the notifications
approveWriteOrder(s, l) ==
  Return(approveNotify([s EXCEPT !.orders = WriteRowAt(@, l.idx, l.orow)], l),
         l, "approve", "delivered")

\* ------------------------------------------ decline (part_000:606-616)
DeclinedPatch == [Status |-> "Declined"]

\* updateRow('Orders', 'OrderID', orderId, {Status: 'Declined'}) up to
\* values.update; with no matching row updateRow returns false and the
\* handler tells the admin the order is declined all the same
declineFindOrder(s, l) ==
  LET i == FindIndex(s.orders, "OrderID", l.orderId) IN
  IF i = 0
  THEN Goto(Say(s, Msg(l.from, "declined", l.orderId, <<>>)),
            [l EXCEPT !.pc = "dc_readOrders"])
  ELSE Goto(s, [l EXCEPT !.pc = "dc_writeOrder", !.idx = i,
                         !.orow = MergeRow(s.orders[i], DeclinedPatch)])

\* values.update of the order row; the admin is told
declineWriteOrder(s, l) ==
  Goto(Say([s EXCEPT !.orders = WriteRowAt(@, l.idx, l.orow)],
           Msg(l.from, "declined", l.orderId, <<>>)),
       [l EXCEPT !.pc = "dc_readOrders", !.idx = 0, !.orow = BlankOrder])

\* a decline that ends without telling the order's user
declineReadOrdersSilent(s, l) == Return(s, l, "decline", "declined")

\* const orders = await getRows('Orders'); the order's user is told
declineReadOrders(s, l) ==
  LET i == FindIndex(s.orders, "OrderID", l.orderId) IN
  IF i = 0
  THEN Return(s, l, "decline", "noSuchOrder")
  ELSE Return(Say(s, Msg(s.orders[i].UserID, "orderDeclined", l.orderId, <<>>)),
              l, "decline", "declined")

\* the admin gate of the admin callback handler (part_000:551-554)
IsAdmin(userId) == userId = ADMIN_ID

\* a press of an Approve / Decline button: the handler up to its first await
adminOrderCallback(s, l, userId, action, orderId) ==
  IF ~IsAdmin(userId)
  THEN Return(Say(s, Msg(userId, "accessDenied", "", <<>>)),
              [l EXCEPT !.orderId = orderId], action, "accessDenied")
  ELSE Goto(s, [l EXCEPT !.pc = IF action = "approve" THEN "ap_readOrders"
                                 ELSE "dc_findOrder",
                         !.from = userId, !.orderId = orderId])

\* ------------------------------- admin: delete category (part_000:633-647)
\* callback adm_del_cat_confirm_<id>: values.clear of Categories!A:Z empties
\* the sheet, header row included; getRows then gives [], and
\* Object.keys(categories[0]) throws before anything is appended again
admDelCatConfirm(s, l, userId, categoryId) ==
  IF ~IsAdmin(userId)
  THEN Return(Say(s, Msg(userId, "accessDenied", "", <<>>)), l, "deleteCategory",
              "accessDenied")
  ELSE Return([s EXCEPT !.categories = <<>>],
              [l EXCEPT !.from = userId, !.catId = categoryId],
              "deleteCategory", "TypeError")

\* ------------------------------- a store call that fails (part_000:50-66)
\* values.update of the order row rejects: updateRow has no catch and
\* neither has the callback handler, so the handler ends at line 594
approveWriteOrderFails(s, l) == Return(s, l, "approve", "storeError")

\* ------------------------------- admin: add category (index.js:268-270, 446-467)
\* callback adm_add_cat_prompt
admAddCatPrompt(s, userId) ==
  [s EXCEPT !.userStates[userId] = [NoSession EXCEPT !.state = "adm_waiting_for_cat_value"]]

\* message in adm_waiting_for_cat_value; text is a positive integer
admCatValue(s, userId, text) ==
  [s EXCEPT !.userStates[userId] =
     [@ EXCEPT !.state = "adm_waiting_for_cat_price", !.temp_cat_value = text]]

\* the row appendSheetRow is given at index.js:464
NewCategoryValues(value, price) ==
  <<"cat_" \o value, value, price, price, price, price, price, "0", "">>

\* message in adm_waiting_for_cat_price: await appendSheetRow('Categories', ...)
admCatPriceAppend(s, l, userId, price) ==
  Goto([s EXCEPT !.categories =
          Append(@, RowOf(CategoryHeaders,
                          NewCategoryValues(s.userStates[userId].temp_cat_value, price)))],
       [l EXCEPT !.pc = "cp_done", !.from = userId,
                 !.catId = "cat_" \o s.userStates[userId].temp_cat_value])

\* after the await: delete userStates[userId], the confirmation message
admCatPriceDone(s, l) ==
  Return(Say([s EXCEPT !.userStates[l.from] = NoSession],
             Msg(l.from, "categoryCreated", l.catId, <<>>)),
         l, "addCategory", l.catId)

\* ------------------------------- admin: add stock (index.js:295-298, 468-483)
\* callback adm_add_stock_select_cat_<id>
admAddStockSelectCat(s, userId, categoryId) ==
  [s EXCEPT !.userStates[userId] =
     [NoSession EXCEPT !.state = "adm_waiting_for_voucher_codes",
                       !.categoryId = categoryId]]

\* the patch of add stock and of remove code: Stock is the new length
StockPatch(codes) == [VoucherCodes |-> JoinNL(codes), Stock |-> ToString(Len(codes))]

\* currentVouchers.concat(newCodes)
UpdatedVouchers(currentVouchers, newCodes) == currentVouchers \o newCodes

\* message in adm_waiting_for_voucher_codes: const categories = await
\* getSheetRows('Categories'); newCodes are the codes parsed from the text
admVoucherCodesRead(s, l, userId, newCodes) ==
  LET categoryId == s.userStates[userId].categoryId
      i == FindIndex(s.categories, "CategoryID", categoryId)
      l1 == [l EXCEPT !.from = userId, !.catId = categoryId]
  IN
  IF i = 0
  THEN Return(Say([s EXCEPT !.userStates[userId] = NoSession],
                  Msg(userId, "categoryNotFound", categoryId, <<>>)),
              l1, "appendCodes", "categoryNotFound")
  ELSE Goto([s EXCEPT !.nextSerial = @ + Len(newCodes)],
            [l1 EXCEPT !.pc = "ac_findCategory",
                       !.remaining = UpdatedVouchers(
                          SplitCodes(s.categories[i].VoucherCodes),
                          [k \in 1..Len(newCodes) |->
                             Code(newCodes[k], s.nextSerial + k - 1)])])

\* updateSheetRow('Categories', 'CategoryID', id, patch) up to values.update
stockFindCategory(s, l, writePc, donePc) ==
  LET i == FindIndex(s.categories, "CategoryID", l.catId) IN
  IF i = 0
  THEN Goto(s, [l EXCEPT !.pc = donePc])
  ELSE Goto(s, [l EXCEPT !.pc = writePc, !.idx = i,
                         !.crow = MergeRow(s.categories[i], StockPatch(l.remaining))])

\* values.update of the category row
stockWriteCategory(s, l, donePc) ==
  Goto([s EXCEPT !.categories = WriteRowAt(@, l.idx, l.crow)],
       [l EXCEPT !.pc = donePc, !.idx = 0, !.crow = BlankCategory])

\* after the await: the confirmation, delete userStates[userId]
admVoucherCodesDone(s, l) ==
  Return(Say([s EXCEPT !.userStates[l.from] = NoSession],
             Msg(l.from, "codesAdded", l.catId, <<>>)),
         l, "appendCodes", "added")

\* ------------------------------- admin: remove code (index.js:308-310, 484-503)
\* callback adm_remove_stock_prompt
admRemoveStockPrompt(s, userId) ==
  [s EXCEPT !.userStates[userId] =
     [NoSession EXCEPT !.state = "adm_waiting_for_code_to_remove"]]

\* voucherCodes.filter(code => code !== codeToRemove)
WithoutCode(codes, codeToRemove) ==
  SelectSeq(codes, LAMBDA c : c.txt # codeToRemove)

\* the first row, in sheet order, whose pool holds the code; 0 when none does
FirstHolding(rows, codeToRemove) ==
  LET holds(i) == \E k \in 1..Len(SplitCodes(rows[i].VoucherCodes)) :
                     SplitCodes(rows[i].VoucherCodes)[k].txt = codeToRemove
  IN IF \E i \in 1..Len(rows) : holds(i)
     THEN CHOOSE i \in 1..Len(rows) : holds(i) /\ \A j \in 1..(i - 1) : ~holds(j)
     ELSE 0

\* message in adm_waiting_for_code_to_remove: const categories = await
\* getSheetRows('Categories'); the scan for the code
admCodeToRemoveRead(s, l, userId, codeToRemove) ==
  LET i == FirstHolding(s.categories, codeToRemove)
      l1 == [l EXCEPT !.from = userId]
  IN
  IF i = 0
  THEN Return(Say([s EXCEPT !.userStates[userId] = NoSession],
                  Msg(userId, "codeNotFound", "", <<>>)),
              l1, "removeCode", "codeNotFound")
  ELSE Goto(s, [l1 EXCEPT !.pc = "rc_findCategory",
                          !.catId = s.categories[i].CategoryID,
                          !.remaining = WithoutCode(
                             SplitCodes(s.categories[i].VoucherCodes), codeToRemove)])

\* after the await: the confirmation, delete userStates[userId]
admCodeToRemoveDone(s, l) ==
  Return(Say([s EXCEPT !.userStates[l.from] = NoSession],
             Msg(l.from, "codeRemoved", l.catId, <<>>)),
         l, "removeCode", "removed")

\* ------------------------------- submit (the call at index.js:405)
\* the order row of a submission: status Pending, no codes
NewOrderValues(orderId, userId, st, utr) ==
  <<orderId, userId, "name", st.categoryId, ToString(st.qty), st.totalCost, utr,
    "Pending", <<>>, "now">>

\* submitOrder as index.js calls it: the order row is appended with the
\* session's category, quantity and total, the user and the admin are
\* told, the session is removed
submitOrderPersist(s, userId, st, utr) ==
  LET orderId == OrderId(Len(s.orders) + 1) IN
  [Say(Say(s, Msg(userId, "orderSubmitted", orderId, <<>>)),
       Msg(ADMIN_ID, "newOrder", orderId, <<>>))
     EXCEPT !.orders = Append(@, RowOf(OrderHeaders,
                                       NewOrderValues(orderId, userId, st, utr))),
            !.userStates[userId] = NoSession,
            !.last = [@ EXCEPT !.op = "submit", !.orderId = orderId, !.res = "pending"]]

\* ------------------------------- the UTR prompt (part_000:352-398, index.js:401-410)
IsDigit(c) == c \in {"0", "1", "2", "3", "4", "5", "6", "7", "8", "9"}

\* String.prototype.trim on a text given as a sequence of characters
RECURSIVE TrimStart(_)
TrimStart(text) ==
  IF Len(text) > 0 /\ text[1] = " " THEN TrimStart(Tail(text)) ELSE text

RECURSIVE TrimEnd(_)
TrimEnd(text) ==
  IF Len(text) > 0 /\ text[Len(text)] = " "
  THEN TrimEnd(SubSeq(text, 1, Len(text) - 1)) ELSE text

Trim(text) == TrimEnd(TrimStart(text))

\* !isNaN(parseInt(text)): parseInt reads an optional sign and the digits
\* the text begins with, and gives NaN when there is no digit to read
ParsesAsInt(text) ==
  \/ Len(text) >= 1 /\ IsDigit(text[1])
  \/ Len(text) >= 2 /\ text[1] \in {"+", "-"} /\ IsDigit(text[2])

\* utr.length === 12 && !isNaN(parseInt(utr))
UtrAccepted(utr) == Len(utr) = 12 /\ ParsesAsInt(utr)

\* a submission that takes the quantity off the category's stock
submitOrderReserving(s, userId, utr) ==
  LET st == s.userStates[userId]
      i == FindIndex(s.categories, "CategoryID", st.categoryId)
  IN [s EXCEPT !.categories = IF i = 0 THEN @
                              ELSE [@ EXCEPT ![i].Stock = JsMinusStr(@, st.qty)],
               !.last = [@ EXCEPT !.op = "submit", !.res = "reserved"]]

\* submitOrder of part_000: building orderData reads msg.from.first_name,
\* and msg is not a name of this function's scope; the ReferenceError ends
\* the function before appendRow
submitOrder(s, userId, utr) ==
  [s EXCEPT !.last = [@ EXCEPT !.op = "submit", !.res = "ReferenceError"]]

\* message in waiting_for_utr, part_000
utrMessage(s, userId, utr) ==
  IF UtrAccepted(utr)
  THEN submitOrder([s EXCEPT !.userStates[userId].state = Undefined], userId, utr)
  ELSE [Say(s, Msg(userId, "invalidUtr", "", <<>>))
          EXCEPT !.last = [@ EXCEPT !.op = "utr", !.res = "invalidUtr"]]

\* message in waiting_for_utr, index.js
utrMessageIndex(s, userId, utr) ==
  IF UtrAccepted(utr)
  THEN submitOrderPersist(s, userId, s.userStates[userId], utr)
  ELSE [Say(s, Msg(userId, "invalidUtr", "", <<>>))
          EXCEPT !.last = [@ EXCEPT !.op = "utr", !.res = "invalidUtr"]]

\* a UTR handler that leaves the state in place while submitOrder runs
utrMessageIndexBeginKeeping(s, l, userId, utr) ==
  IF UtrAccepted(utr)
  THEN Goto(s, [l EXCEPT !.pc = "so_append", !.from = userId,
                         !.orow = RowOf(OrderHeaders,
                                        NewOrderValues("", userId, s.userStates[userId], utr))])
  ELSE Return(Say(s, Msg(userId, "invalidUtr", "", <<>>)), l, "utr", "invalidUtr")

\* message in waiting_for_utr, index.js, up to the store call of the
\* submission: delete userStates[userId].state (404) comes before the call
\* of submitOrder, which builds the order row and awaits the append
utrMessageIndexBegin(s, l, userId, utr) ==
  IF UtrAccepted(utr)
  THEN Goto([s EXCEPT !.userStates[userId].state = Undefined],
            [l EXCEPT !.pc = "so_append", !.from = userId,
                      !.orow = RowOf(OrderHeaders,
                                     NewOrderValues("", userId, s.userStates[userId], utr))])
  ELSE Return(Say(s, Msg(userId, "invalidUtr", "", <<>>)), l, "utr", "invalidUtr")

\* the submission after its store call: the row is in the sheet, the user
\* and the admin are told, the session is removed
submitOrderAppend(s, l) ==
  LET orderId == OrderId(Len(s.orders) + 1) IN
  Return(Say(Say([s EXCEPT !.orders = Append(@, [l.orow EXCEPT !.OrderID = orderId]),
                           !.userStates[l.from] = NoSession],
                 Msg(l.from, "orderSubmitted", orderId, <<>>)),
             Msg(ADMIN_ID, "newOrder", orderId, <<>>)),
         [l EXCEPT !.orderId = orderId], "submit", "pending")

\* ------------------------------- recover vouchers (part_000:429-454, index.js:413-426)
\* onText Recover Vouchers
recoverPrompt(s, userId) ==
  [Say(s, Msg(userId, "recoverPrompt", "", <<>>))
     EXCEPT !.userStates[userId] = [NoSession EXCEPT !.state = "waiting_for_recovery_oid"],
            !.last = [@ EXCEPT !.op = "recoverPrompt"]]

\* an ownership test that lets everyone through
NotOwnerNever(order, userId) == FALSE

\* order.UserID !== userId.toString()
NotOwner(order, userId) == order.UserID # userId

\* message in waiting_for_recovery_oid: the order is looked up by the text,
\* one reply is sent, the session is deleted
recoveryMessage(s, userId, orderId) ==
  LET i == FindIndex(s.orders, "OrderID", orderId)
      reply ==
        IF i = 0 \/ NotOwner(s.orders[i], userId)
        THEN Msg(userId, "orderNotFound", orderId, <<>>)
        ELSE IF s.orders[i].Status = "Successful"
        THEN Msg(userId, "vouchersFound", orderId, s.orders[i].VoucherCodeDelivered)
        ELSE Msg(userId, "status:" \o s.orders[i].Status, orderId, <<>>)
  IN [Say(s, reply)
        EXCEPT !.userStates[userId] = NoSession,
               !.last = [@ EXCEPT !.op = "recover", !.orderId = orderId, !.res = reply.kind]]

\* ------------------------------- numbers read from texts and cells
\* a JavaScript number that came out of a conversion
NaN == [nan |-> TRUE, val |-> 0]
Num(n) == [nan |-> FALSE, val |-> n]

DigitVal(c) == CHOOSE d \in 0..9 : ToString(d) = c

\* the decimal digits a text begins with
RECURSIVE LeadingDigits(_)
LeadingDigits(text) ==
  IF Len(text) > 0 /\ IsDigit(text[1])
  THEN <<text[1]>> \o LeadingDigits(Tail(text))
  ELSE <<>>

\* numbers of more than six digits are one and the same number here
Huge == 1000000

RECURSIVE DigitsValue(_)
DigitsValue(ds) ==
  IF Len(ds) = 0 THEN 0
  ELSE IF Len(ds) > 6 THEN Huge
  ELSE 10 * DigitsValue(SubSeq(ds, 1, Len(ds) - 1)) + DigitVal(ds[Len(ds)])

\* parseInt(msg.text): white space, a sign, then digits; NaN without a
\* digit, and NaN for a message that has no text
ParseInt(text) ==
  LET t == TrimStart(text)
      signed == Len(t) > 0 /\ t[1] \in {"+", "-"}
      ds == LeadingDigits(IF signed THEN Tail(t) ELSE t)
  IN IF Len(ds) = 0 THEN NaN
     ELSE IF signed /\ t[1] = "-" THEN Num(0 - DigitsValue(ds))
     ELSE Num(DigitsValue(ds))

\* the text of a number, as a user types it
RECURSIVE DigitChars(_)
DigitChars(ds) ==
  IF Len(ds) = 0 THEN <<>> ELSE <<ToString(ds[1])>> \o DigitChars(Tail(ds))

NumberText(n) == DigitChars(Digits(n))

\* prices are in rupees, and amounts are kept in paise
Rupees == {0, 35, 39, 40, 45, 50}

\* parseFloat of a price cell: NaN for an empty or absent cell
ParseFloat(cell) ==
  IF \E n \in Rupees : cell \in {ToString(n), ToString(n) \o ".00"}
  THEN Num(100 * (CHOOSE n \in Rupees : cell \in {ToString(n), ToString(n) \o ".00"}))
  ELSE NaN

\* Number.prototype.toFixed(2) of an amount of whole rupees
ToFixed2(paise) == ToString(paise \div 100) \o ".00"

\* qty > cell with a number on the left: the cell is converted to a number,
\* '' to 0 and undefined to NaN, and NaN compares false
StockRange == 0..(3 * BigQty)

JsNumGreater(n, cell) ==
  IF cell = "" THEN n > 0
  ELSE /\ \E k \in StockRange : ToString(k) = cell
       /\ n > (CHOOSE k \in StockRange : ToString(k) = cell)

\* ------------------------------- quantity and payment (part_000:211-321)
\* row[h] of a row object: undefined for a column the sheet does not have
Cell(row, h) == IF h \in DOMAIN row THEN row[h] ELSE Undefined

\* a || b || ... on cells: the first that is neither '' nor undefined, and
\* the last one when there is none
RECURSIVE OrChain(_, _)
OrChain(row, cols) ==
  IF Len(cols) = 1 \/ Cell(row, cols[1]) \notin {"", Undefined}
  THEN Cell(row, cols[1])
  ELSE OrChain(row, Tail(cols))

\* thresholds that leave the quantity on the threshold to the tier below
TierChainAbove(qty) ==
  IF qty > 20 THEN <<"Price20Plus", "Price10", "Price5", "Price1", "Price">>
  ELSE IF qty > 10 THEN <<"Price10", "Price5", "Price1", "Price">>
  ELSE IF qty > 5 THEN <<"Price5", "Price1", "Price">>
  ELSE <<"Price1", "Price">>

\* the columns tried for a quantity, in order (293-296)
TierChain(qty) ==
  IF qty >= 20 THEN <<"Price20Plus", "Price10", "Price5", "Price1", "Price">>
  ELSE IF qty >= 10 THEN <<"Price10", "Price5", "Price1", "Price">>
  ELSE IF qty >= 5 THEN <<"Price5", "Price1", "Price">>
  ELSE <<"Price1", "Price">>

\* rate = parseFloat(cat.PriceN || ... || cat.Price)
Rate(cat, qty) == ParseFloat(OrChain(cat, TierChain(qty)))

\* callback select_qty_<id> (219-240): the session is set before the
\* category is looked up
selectQty(s, userId, categoryId) ==
  LET s1 == [s EXCEPT !.userStates[userId] =
                        [NoSession EXCEPT !.state = "waiting_for_qty_input",
                                          !.categoryId = categoryId],
                      !.last = [@ EXCEPT !.op = "selectQty"]]
  IN IF FindIndex(s.categories, "CategoryID", categoryId) = 0
     THEN [Say(s1, Msg(userId, "categoryNotFound", categoryId, <<>>))
             EXCEPT !.last.res = "categoryNotFound"]
     ELSE [Say(s1, Msg(userId, "qtyPrompt", categoryId, <<>>))
             EXCEPT !.last.res = "qtyPrompt"]

\* processQuantityAndShowPayment (276-321)
processQuantityAndShowPayment(s, userId, categoryId, qty) ==
  LET i == FindIndex(s.categories, "CategoryID", categoryId)
      s1 == [s EXCEPT !.last = [@ EXCEPT !.op = "processQuantity"]]
  IN
  IF i = 0
  THEN [Say(s1, Msg(userId, "categoryDataMissing", categoryId, <<>>))
          EXCEPT !.last.res = "categoryDataMissing"]
  ELSE
    LET cat == s.categories[i]
        rate == Rate(cat, qty)
    IN
    IF JsNumGreater(qty, cat.Stock)
    THEN [Say(s1, Msg(userId, "notEnoughStock", categoryId, <<>>))
            EXCEPT !.userStates[userId] =
                     [NoSession EXCEPT !.state = "waiting_for_qty_input",
                                       !.categoryId = categoryId],
                   !.last.res = "notEnoughStock"]
    ELSE IF rate.nan \/ rate.val <= 0
    THEN [Say(s1, Msg(userId, "pricingNotSet", categoryId, <<>>))
            EXCEPT !.last.res = "pricingNotSet"]
    ELSE [Say(s1, Msg(userId, "paymentRequired", categoryId, <<>>))
            EXCEPT !.userStates[userId] =
                     [NoSession EXCEPT !.state = "waiting_for_proof",
                                       !.categoryId = categoryId,
                                       !.qty = qty,
                                       !.totalCost = ToFixed2(rate.val * qty)],
                   !.last.res = "paymentRequired"]

\* message in waiting_for_custom_qty_input (263-271)
customQtyMessage(s, userId, text) ==
  LET qty == ParseInt(text) IN
  IF ~qty.nan /\ qty.val > 0
  THEN processQuantityAndShowPayment([s EXCEPT !.userStates[userId] = NoSession],
                                     userId, s.userStates[userId].categoryId, qty.val)
  ELSE [Say(s, Msg(userId, "invalidNumber", "", <<>>))
          EXCEPT !.last = [@ EXCEPT !.op = "customQty", !.res = "invalidNumber"]]

\* ------------------------------- what the purchase flow leaves in a session
\* the numbers typed into messages, and the face values a category id can
\* be made of
TypedNumbers == {7}
ValueTexts == FaceValues \cup {ToString(n) : n \in TypedNumbers}

\* data.split('_') of a quantity button: the pieces of a category id
UnderscoreParts(categoryId) ==
  IF \E v \in ValueTexts : categoryId = "cat_" \o v
  THEN <<"cat", CHOOSE v \in ValueTexts : categoryId = "cat_" \o v>>
  ELSE <<categoryId>>

\* parts[3] of 'qty_btn_<n>_<categoryId>' (index.js:240-242)
QtyButtonCategory(categoryId) == UnderscoreParts(categoryId)[1]

\* the session at the UTR prompt: category, quantity, total and proof
UtrSession(categoryId, qty) ==
  [NoSession EXCEPT !.state = "waiting_for_utr", !.categoryId = categoryId,
                    !.qty = qty, !.totalCost = ToString(39 * qty) \o ".00",
                    !.proofId = "photo"]

\* callback qty_<n>_<id> up to the first await of
\* processQuantityAndShowPayment: const categories = await getRows(...)
\* (277); nothing is written to the session before it
qtyButtonBegin(s, l, userId, n, categoryId) ==
  Goto(s, [l EXCEPT !.pc = "pq_getRows", !.from = userId,
                    !.catId = QtyButtonCategory(categoryId), !.qty = n])

\* processQuantityAndShowPayment after getRows has answered (278-321)
processQuantityResume(s, l) ==
  [s |-> processQuantityAndShowPayment(s, l.from, l.catId, l.qty), l |-> Idle]

\* callback qty_<n>_<id> (241-250): the category id is parts[2] of the
\* split data
qtyButton(s, userId, n, categoryId) ==
  processQuantityAndShowPayment(s, userId, QtyButtonCategory(categoryId), n)

\* callback qty_custom_<id> (246-248)
qtyCustom(s, userId, categoryId) ==
  [Say(s, Msg(userId, "customQtyPrompt", "", <<>>))
     EXCEPT !.userStates[userId] =
              [NoSession EXCEPT !.state = "waiting_for_custom_qty_input",
                                !.categoryId = QtyButtonCategory(categoryId)],
            !.last = [@ EXCEPT !.op = "qtyCustom"]]

\* ------------------------------- messages and their texts
\* a message: msg.photo is set or not, and msg.text is a sequence of
\* characters; a photo has no text (msg.text is undefined)
TextMsg(text) == [photo |-> FALSE, text |-> text]
PhotoMsg == [photo |-> TRUE, text |-> <<>>]

CancelText == <<"/", "c", "a", "n", "c", "e", "l">>
HelloText == <<"h", "i">>

\* msg.text.startsWith('/')
StartsWithSlash(text) == Len(text) > 0 /\ text[1] = "/"

\* the text as one string
RECURSIVE TextString(_)
TextString(text) == IF Len(text) = 0 THEN "" ELSE text[1] \o TextString(Tail(text))

\* what a message handler leaves in the history: the handlers that took the
\* message (tags joined by +) and what they sent
Took(s, tags) ==
  [s EXCEPT !.last = [op |-> "message", orderId |-> @.orderId, res |-> tags,
                      sent |-> @.sent]]

\* ------------------------------- captcha (index.js:147-155, 161-186, 358-377)
\* onText /start: a blocked user is refused, a verified one gets the main
\* menu, anyone else the invitation with the check_join button
start(s, userId) ==
  LET i == FindIndex(s.users, "UserID", userId)
      reply == IF i # 0 /\ s.users[i].Status = "Blocked" THEN "blocked"
               ELSE IF i # 0 /\ s.users[i].Verified = "Yes" THEN "mainMenu"
               ELSE "welcome"
  IN [Say(s, Msg(userId, reply, "", <<>>))
        EXCEPT !.last = [@ EXCEPT !.op = "start", !.res = reply]]

\* sendCaptcha: answer is n1 + n2 of two random numbers from 1 to 10
sendCaptcha(s, userId, answer) ==
  [Say(s, Msg(userId, "captcha", "", <<>>))
     EXCEPT !.userStates[userId] =
              [NoSession EXCEPT !.state = "waiting_for_captcha", !.answer = answer]]

\* a row that leaves the user unverified
NewUserValuesUnverified(userId) == <<userId, "name", "now", "Active", "No", "", "">>

\* the row appendSheetRow is given at index.js:370
NewUserValues(userId) == <<userId, "name", "now", "Active", "Yes", "", "">>

\* the patch of updateSheetRow at index.js:368
VerifiedPatch == [Status |-> "Active", Verified |-> "Yes", Date |-> "now"]

\* the Users sheet after a right answer (364-371): the user's row is
\* updated, or appended when there is none
verifyUser(rows, userId) ==
  LET i == FindIndex(rows, "UserID", userId) IN
  IF i = 0 THEN Append(rows, RowOf(UserHeaders, NewUserValues(userId)))
  ELSE WriteRowAt(rows, i, MergeRow(rows[i], VerifiedPatch))


\* the Users sheet after a right answer when the read at 364 fails:
\* getSheetRows catches the error and returns [] (index.js:36-40), find
\* gives no record and the row is appended (370)
verifyUserReadFails(rows, userId) ==
  Append(rows, RowOf(UserHeaders, NewUserValues(userId)))

\* message in waiting_for_captcha with the right answer, the read of Users
\* failing
captchaMessageReadFails(s, userId) ==
  Say(Say(Say([s EXCEPT !.userStates[userId] = NoSession,
                        !.users = verifyUserReadFails(@, userId)],
              Msg(userId, "verified", "", <<>>)),
          Msg(ADMIN_ID, "sheetError", "", <<>>)),
      Msg(userId, "mainMenu", "", <<>>))

\* message in waiting_for_captcha; next is the answer of the captcha sent
\* after a wrong answer
captchaMessage(s, userId, m, next) ==
  LET userAnswer == ParseInt(m.text) IN
  IF ~userAnswer.nan /\ userAnswer.val = s.userStates[userId].answer
  THEN Say(Say([s EXCEPT !.userStates[userId] = NoSession,
                         !.users = verifyUser(@, userId)],
               Msg(userId, "verified", "", <<>>)),
           Msg(userId, "mainMenu", "", <<>>))
  ELSE sendCaptcha(Say(s, Msg(userId, "wrongAnswer", "", <<>>)), userId, next)

\* ------------------------------- payment proof (index.js:253-256, 392-400)
\* callback submit_proof: userStates[userId].state = ..., a TypeError when
\* the user has no session
submitProof(s, userId) ==
  IF s.userStates[userId] = NoSession
  THEN [s EXCEPT !.last = [@ EXCEPT !.op = "submitProof", !.res = "TypeError"]]
  ELSE [Say(s, Msg(userId, "screenshotPrompt", "", <<>>))
          EXCEPT !.userStates[userId].state = "waiting_for_screenshot",
                 !.last = [@ EXCEPT !.op = "submitProof", !.res = "screenshotPrompt"]]

\* message in waiting_for_screenshot
screenshotMessage(s, userId, m) ==
  IF m.photo
  THEN [Say(s, Msg(userId, "utrPrompt", "", <<>>))
          EXCEPT !.userStates[userId].proofId = "photo",
                 !.userStates[userId].state = "waiting_for_utr"]
  ELSE Say(s, Msg(userId, "notAPhoto", "", <<>>))

\* ------------------------------- support (part_000:465-516, index.js:429-442)
\* onText Support
supportPrompt(s, userId) ==
  [Say(s, Msg(userId, "supportPrompt", "", <<>>))
     EXCEPT !.userStates[userId] = [NoSession EXCEPT !.state = "in_support_mode"],
            !.last = [@ EXCEPT !.op = "supportPrompt"]]

\* message in in_support_mode other than /cancel: forwarded to the admin
supportMessage(s, userId, m) ==
  Say(Say(s, Msg(ADMIN_ID, "supportMsg", userId, <<>>)),
      Msg(userId, "forwarded", "", <<>>))

\* onText /cancel (part_000:479-490)
cancelCommand(s, userId) ==
  IF s.userStates[userId].state = "in_support_mode"
  THEN Say(Say([s EXCEPT !.userStates[userId] = NoSession],
               Msg(userId, "exitedSupport", "", <<>>)),
           Msg(userId, "mainMenu", "", <<>>))
  ELSE s

\* ------------------------------- admin prompts (index.js:284-346)
\* the callbacks that only set the admin's state and prompt
AdminPromptState(data) ==
  CASE data = "adm_add_stock_prompt" -> "adm_waiting_for_stock_cat_select"
    [] data = "adm_select_tier_pricing_" -> "adm_waiting_for_tier_selection"
    [] data = "adm_input_tier_price_" -> "adm_waiting_for_tier_price_input"
    [] data = "adm_bc_prompt" -> "adm_waiting_for_broadcast_message"
    [] data = "adm_dm_prompt" -> "adm_waiting_for_dm_target_id"
    [] data = "adm_block_prompt" -> "adm_waiting_for_block_id"

AdminPrompts ==
  {"adm_add_stock_prompt", "adm_select_tier_pricing_", "adm_input_tier_price_",
   "adm_bc_prompt", "adm_dm_prompt", "adm_block_prompt"}

\* parts[5] of 'adm_input_tier_price_<tier>_<categoryId>' (333-335)
TierButtonCategory(categoryId) == UnderscoreParts(categoryId)[1]

\* the tier prompts read categories, which is not a name of the handler's
\* scope, after the session is set: a ReferenceError and no message
adminPrompt(s, userId, data, categoryId, tier) ==
  LET s1 == [s EXCEPT !.userStates[userId] =
                        [NoSession EXCEPT
                           !.state = AdminPromptState(data),
                           !.categoryId =
                              IF data = "adm_select_tier_pricing_" THEN categoryId
                              ELSE IF data = "adm_input_tier_price_"
                              THEN TierButtonCategory(categoryId)
                              ELSE "",
                           !.tier = IF data = "adm_input_tier_price_" THEN tier ELSE ""],
                      !.last = [@ EXCEPT !.op = "adminPrompt", !.res = data]]
  IN
  IF data \in {"adm_select_tier_pricing_", "adm_input_tier_price_"}
  THEN [s1 EXCEPT !.last.res = "ReferenceError"]
  ELSE IF data = "adm_add_stock_prompt" /\ Len(s.categories) = 0
  THEN Say(s1, Msg(userId, "noCategories", "", <<>>))
  ELSE Say(s1, Msg(userId, data, "", <<>>))

\* callback select_cat_<id> (index.js:215-235)
selectCat(s, userId, categoryId) ==
  LET s1 == [s EXCEPT !.userStates[userId] =
                        [NoSession EXCEPT !.state = "waiting_for_qty_selection",
                                          !.categoryId = categoryId],
                      !.last = [@ EXCEPT !.op = "selectCat"]]
  IN IF FindIndex(s.categories, "CategoryID", categoryId) = 0
     THEN [Say(s1, Msg(userId, "categoryNotFound", categoryId, <<>>))
             EXCEPT !.last.res = "categoryNotFound"]
     ELSE [Say(s1, Msg(userId, "qtyPrompt", categoryId, <<>>))
             EXCEPT !.last.res = "qtyPrompt"]

\* ------------------------------------------------- one step of a handler
step(s, l) ==
  CASE l.pc = "ap_readOrders" -> approveReadOrders(s, l)
    [] l.pc = "ap_readCategories" -> approveReadCategories(s, l)
    [] l.pc = "ap_findCategory" -> approveFindCategory(s, l)
    [] l.pc = "ap_writeCategory" -> approveWriteCategory(s, l)
    [] l.pc = "ap_findOrder" -> approveFindOrder(s, l)
    [] l.pc = "ap_writeOrder" -> approveWriteOrder(s, l)
    [] l.pc = "dc_findOrder" -> declineFindOrder(s, l)
    [] l.pc = "dc_writeOrder" -> declineWriteOrder(s, l)
    [] l.pc = "dc_readOrders" -> declineReadOrders(s, l)
    [] l.pc = "cp_done" -> admCatPriceDone(s, l)
    [] l.pc = "ac_findCategory" -> stockFindCategory(s, l, "ac_writeCategory", "ac_done")
    [] l.pc = "ac_writeCategory" -> stockWriteCategory(s, l, "ac_done")
    [] l.pc = "ac_done" -> admVoucherCodesDone(s, l)
    [] l.pc = "rc_findCategory" -> stockFindCategory(s, l, "rc_writeCategory", "rc_done")
    [] l.pc = "rc_writeCategory" -> stockWriteCategory(s, l, "rc_done")
    [] l.pc = "rc_done" -> admCodeToRemoveDone(s, l)
    [] l.pc = "so_append" -> submitOrderAppend(s, l)
    [] l.pc = "pq_getRows" -> processQuantityResume(s, l)

\* a handler run from a suspension point to its end, nothing in between
RECURSIVE run(_)
run(r) == IF r.l.pc = "idle" THEN r ELSE run(step(r.s, r.l))

\* a handler run from a suspension point up to the store call named pc
RECURSIVE runTo(_, _)
runTo(r, pc) == IF r.l.pc \in {"idle", pc} THEN r ELSE runTo(step(r.s, r.l), pc)

\* ------------------------------- admin inputs (index.js:445-554)
\* msg.text.split(/[\n,]+/).map(trim).filter(nonempty) of a text of one line
\* without commas
CodesOf(text) == IF Len(Trim(text)) = 0 THEN <<>> ELSE <<TextString(Trim(text))>>

\* a broadcast that also ends the sessions of the users it reaches
broadcastClearing(s) ==
  [s EXCEPT !.last.sent =
              @ \cup {Msg(s.users[i].UserID, "broadcast", "", <<>>) : i \in 1..Len(s.users)},
            !.userStates =
              [u \in DOMAIN @ |->
                 IF \E i \in 1..Len(s.users) : s.users[i].UserID = u
                 THEN NoSession ELSE @[u]]]

\* for (const userRow of users) sendMessage(userRow.UserID, ...) (506-513)
broadcast(s) ==
  [s EXCEPT !.last.sent =
     @ \cup {Msg(s.users[i].UserID, "broadcast", "", <<>>) : i \in 1..Len(s.users)}]

\* message in adm_waiting_for_block_id (542-550): the Status of the user's
\* row is toggled
blockUser(s, userId, targetId) ==
  LET i == FindIndex(s.users, "UserID", targetId) IN
  IF i = 0 THEN Say(s, Msg(userId, "userNotFound", "", <<>>))
  ELSE Say([s EXCEPT !.users =
              WriteRowAt(@, i, MergeRow(@[i],
                 [Status |-> IF @[i].Status = "Blocked" THEN "Active" ELSE "Blocked"]))],
           Msg(userId, "statusChanged", "", <<>>))

\* the admin branch of the message handler; the admin's texts have no
\* decimal point, so parseFloat reads what parseInt reads
adminMessageIndex(s, userId, m) ==
  LET st == s.userStates[userId]
      n == ParseInt(m.text)
      gone == [s EXCEPT !.userStates[userId] = NoSession]
  IN
  IF st.state = "adm_waiting_for_cat_value"
  THEN IF n.nan \/ n.val <= 0
       THEN Took(Say(s, Msg(userId, "invalidValue", "", <<>>)), "adminCatValue")
       ELSE Took(Say(admCatValue(s, userId, ToString(n.val)),
                     Msg(userId, "pricePrompt", "", <<>>)), "adminCatValue")
  ELSE IF st.state = "adm_waiting_for_cat_price"
  THEN IF n.nan \/ n.val <= 0
       THEN Took(Say(s, Msg(userId, "invalidPrice", "", <<>>)), "adminCatPrice")
       ELSE Took(run(admCatPriceAppend(s, Idle, userId, ToFixed2(100 * n.val))).s,
                 "adminCatPrice")
  ELSE IF st.state = "adm_waiting_for_voucher_codes"
  THEN IF m.photo THEN Took(s, "TypeError")
       ELSE Took(run(admVoucherCodesRead(s, Idle, userId, CodesOf(m.text))).s,
                 "adminVoucherCodes")
  ELSE IF st.state = "adm_waiting_for_code_to_remove"
  THEN IF m.photo THEN Took(s, "TypeError")
       ELSE Took(run(admCodeToRemoveRead(s, Idle, userId, TextString(Trim(m.text)))).s,
                 "adminCodeToRemove")
  ELSE IF st.state = "adm_waiting_for_broadcast_message"
  THEN Took(Say(broadcast(Say(gone, Msg(userId, "broadcasting", "", <<>>))),
                Msg(userId, "broadcastSent", "", <<>>)), "adminBroadcast")
  ELSE IF st.state = "adm_waiting_for_dm_target_id"
  THEN IF n.nan
       THEN Took(Say(s, Msg(userId, "invalidUserId", "", <<>>)), "adminDmTarget")
       ELSE Took([Say(s, Msg(userId, "dmMessagePrompt", "", <<>>))
                    EXCEPT !.userStates[userId].dmTargetId = n.val,
                           !.userStates[userId].state = "adm_waiting_for_dm_message"],
                 "adminDmTarget")
  ELSE IF st.state = "adm_waiting_for_dm_message"
  THEN Took(Say(Say(gone, Msg(ToString(st.dmTargetId), "adminDm", "", <<>>)),
                Msg(userId, "dmSent", "", <<>>)), "adminDmMessage")
  ELSE IF st.state = "adm_waiting_for_block_id"
  THEN IF n.nan
       THEN Took(Say(s, Msg(userId, "invalidUserId", "", <<>>)), "adminBlock")
       ELSE Took(blockUser(gone, userId, ToString(n.val)), "adminBlock")
  ELSE Took(s, "none")

\* ------------------------------- the message handler of index.js (352-560)
\* the fallback at 557; a message without text raises a TypeError there
fallbackIndex(s, userId, m) ==
  IF m.photo THEN Took(s, "TypeError")
  ELSE IF ~StartsWithSlash(m.text)
  THEN Took(Say(Say(s, Msg(userId, "dontUnderstand", "", <<>>)),
                Msg(userId, "mainMenu", "", <<>>)), "default")
  ELSE Took(s, "none")

\* one chain of else-ifs: the first branch whose state matches takes the
\* message; next is the answer of a captcha sent anew
indexMessage(s, userId, m, next) ==
  LET state == s.userStates[userId].state IN
  IF state = "waiting_for_captcha"
  THEN Took(captchaMessage(s, userId, m, next), "captcha")
  ELSE IF state = "waiting_for_custom_qty_input"
  THEN Took(customQtyMessage(s, userId, m.text), "customQty")
  ELSE IF state = "waiting_for_screenshot"
  THEN Took(screenshotMessage(s, userId, m), "screenshot")
  ELSE IF state = "waiting_for_utr"
  THEN IF m.photo THEN Took(s, "TypeError")
       ELSE Took(utrMessageIndex(s, userId, Trim(m.text)), "utr")
  ELSE IF state = "waiting_for_recovery_oid"
  THEN IF m.photo THEN Took(s, "TypeError")
       ELSE Took(recoveryMessage(s, userId, TextString(Trim(m.text))), "recovery")
  ELSE IF state = "in_support_mode"
  THEN IF ~m.photo /\ m.text = CancelText THEN Took(s, "none")
       ELSE Took(supportMessage(s, userId, m), "support")
  ELSE IF userId = ADMIN_ID
  THEN adminMessageIndex(s, userId, m)
  ELSE fallbackIndex(s, userId, m)

\* ------------------------------- the message listeners of part_000
\* the row appendRow is given at part_000:685
NewCategoryValuesPart(value, price) ==
  <<"cat_" \o value, value, price, "0", "", price, price, price, price>>

\* the admin listener (656-691): face value and price of a new category
adminMessagePart(s, userId, m) ==
  LET st == s.userStates[userId]
      n == ParseInt(m.text)
  IN
  IF userId # ADMIN_ID THEN [s |-> s, tag |-> ""]
  ELSE IF st.state = "adm_waiting_for_cat_value"
  THEN [s |-> IF n.nan \/ n.val <= 0
              THEN Say(s, Msg(userId, "invalidValue", "", <<>>))
              ELSE Say(admCatValue(s, userId, ToString(n.val)),
                       Msg(userId, "pricePrompt", "", <<>>)),
        tag |-> "adminCatValue"]
  ELSE IF st.state = "adm_waiting_for_cat_price"
  THEN [s |-> IF n.nan \/ n.val <= 0
              THEN Say(s, Msg(userId, "invalidPrice", "", <<>>))
              ELSE Say([s EXCEPT !.categories =
                          Append(@, RowOf(CategoryHeaders,
                                          NewCategoryValuesPart(st.temp_cat_value,
                                                                ToFixed2(100 * n.val)))),
                                 !.userStates[userId] = NoSession],
                       Msg(userId, "categoryCreated", "cat_" \o st.temp_cat_value, <<>>)),
        tag |-> "adminCatPrice"]
  ELSE [s |-> s, tag |-> ""]

\* the listener that takes a message in the state the user is in: captcha
\* (139), custom quantity (258), screenshot and UTR (338), recovery (436),
\* support (493), admin (656); the listeners test different states, so at
\* most one of them acts
stateListener(s, userId, m, next) ==
  LET state == s.userStates[userId].state IN
  IF state = "waiting_for_captcha"
  THEN [s |-> captchaMessage(s, userId, m, next), tag |-> "captcha"]
  ELSE IF state = "waiting_for_custom_qty_input"
  THEN [s |-> customQtyMessage(s, userId, m.text), tag |-> "customQty"]
  ELSE IF state = "waiting_for_screenshot"
  THEN [s |-> screenshotMessage(s, userId, m), tag |-> "screenshot"]
  ELSE IF state = "waiting_for_utr"
  THEN IF m.photo THEN [s |-> s, tag |-> "TypeError"]
       ELSE [s |-> utrMessage(s, userId, Trim(m.text)), tag |-> "utr"]
  ELSE IF state = "waiting_for_recovery_oid"
  THEN IF m.photo THEN [s |-> s, tag |-> "TypeError"]
       ELSE [s |-> recoveryMessage(s, userId, TextString(Trim(m.text))),
             tag |-> "recovery"]
  ELSE IF state = "in_support_mode"
  THEN IF ~m.photo /\ m.text = CancelText THEN [s |-> s, tag |-> ""]
       ELSE [s |-> supportMessage(s, userId, m), tag |-> "support"]
  ELSE adminMessagePart(s, userId, m)

\* the session as the listeners registered later find it: what the state
\* listener has done to it before its first await
SessionSeen(s, userId, m) ==
  LET st == s.userStates[userId]
      n == ParseInt(m.text)
  IN
  IF st.state = "waiting_for_captcha" /\ ~n.nan /\ n.val = st.answer
  THEN NoSession
  ELSE IF st.state = "waiting_for_custom_qty_input" /\ ~n.nan /\ n.val > 0
  THEN NoSession
  ELSE IF st.state = "waiting_for_screenshot" /\ m.photo
  THEN [st EXCEPT !.proofId = "photo", !.state = "waiting_for_utr"]
  ELSE IF st.state = "waiting_for_utr" /\ ~m.photo /\ UtrAccepted(Trim(m.text))
  THEN [st EXCEPT !.state = Undefined]
  ELSE IF /\ userId = ADMIN_ID
          /\ st.state = "adm_waiting_for_cat_value"
          /\ ~n.nan /\ n.val > 0
  THEN [st EXCEPT !.temp_cat_value = ToString(n.val),
                  !.state = "adm_waiting_for_cat_price"]
  ELSE st

\* the states the default reply of the catch-all listener leaves alone (736)
DefaultExcluded ==
  {"waiting_for_captcha", "waiting_for_custom_qty_input", "waiting_for_screenshot",
   "waiting_for_utr", "waiting_for_recovery_oid"}

\* msg.text.startsWith('/msg')
StartsWithMsg(text) == Len(text) >= 4 /\ SubSeq(text, 1, 4) = <<"/", "m", "s", "g">>

\* the catch-all listener (694-740); seen is the session it finds
catchAll(s, userId, m, seen) ==
  IF userId = ADMIN_ID /\ ~m.photo /\ StartsWithMsg(m.text)
  THEN [s |-> Say(s, Msg(userId, "msgCommand", "", <<>>)), tag |-> "msgCommand"]
  ELSE IF seen.state = "in_support_mode"
  THEN IF ~m.photo /\ m.text = CancelText THEN [s |-> s, tag |-> ""]
       ELSE [s |-> supportMessage(s, userId, m), tag |-> "support"]
  ELSE IF m.photo THEN [s |-> s, tag |-> "TypeError"]
  ELSE IF ~StartsWithSlash(m.text) /\ seen.state \notin DefaultExcluded
  THEN [s |-> Say(Say(s, Msg(userId, "dontUnderstand", "", <<>>)),
                  Msg(userId, "mainMenu", "", <<>>)),
        tag |-> "default"]
  ELSE [s |-> s, tag |-> ""]

\* /\/cancel/.exec(msg.text): the command handler runs after the listeners
cancelText(s, userId, m, seen) ==
  IF ~m.photo /\ m.text = CancelText /\ seen.state = "in_support_mode"
  THEN [s |-> cancelCommand(s, userId), tag |-> "cancel"]
  ELSE [s |-> s, tag |-> ""]

\* tags of the handlers that acted, joined by +
JoinTags(a, b) == IF a = "" THEN b ELSE IF b = "" THEN a ELSE a \o "+" \o b

\* a message to part_000: every listener is called with it, then the
\* command handlers whose pattern matches its text
partMessage(s, userId, m, next) ==
  LET seen == SessionSeen(s, userId, m)
      r1 == stateListener(s, userId, m, next)
      r2 == catchAll(r1.s, userId, m, seen)
      r3 == cancelText(r2.s, userId, m, seen)
      tags == JoinTags(JoinTags(r1.tag, r2.tag), r3.tag)
  IN Took(r3.s, IF tags = "" THEN "none" ELSE tags)

\* ------------------------------------------------------------- the model
\* a category row the admin keeps in the sheet by hand, without stock
SheetCategory ==
  RowOf(CategoryHeaders,
        <<"v100", "100", BasePrice, BasePrice, BasePrice, BasePrice, BasePrice,
          BasePrice, BasePrice, "0", <<>>>>)

ValidUtr == <<"1", "2", "3", "4", "5", "6", "7", "8", "9", "0", "1", "2">>
ShortUtr == <<"1", "2", "3">>
MixedUtr == <<"1", "a", "b", "c", "d", "e", "f", "g", "h", "i", "j", "k">>
PaddedUtr == <<" ">> \o ValidUtr \o <<" ">>
UtrTexts == {ValidUtr, ShortUtr, MixedUtr, PaddedUtr}

Init ==
  /\ categories = <<SheetCategory>>
  /\ orders = <<>>
  /\ users = <<>>
  /\ userStates = [u \in Senders |-> NoSession]
  /\ procs = [p \in Procs |-> Idle]
  /\ notified = [o \in OrderIds |-> [user |-> 0, channel |-> 0]]
  /\ nextSerial = 1
  /\ last = NoEvent

\* the program state after a step; hist says whether the history of the
\* handler is kept in last
Commit(s, hist) ==
  /\ categories' = s.categories
  /\ orders' = s.orders
  /\ users' = s.users
  /\ userStates' = s.userStates
  /\ notified' = s.notified
  /\ nextSerial' = s.nextSerial
  /\ last' = IF hist THEN s.last ELSE last

\* an event is dispatched to a free invocation; r is the handler up to its
\* first suspension (the store call it issues is served at once)
Dispatch(p, r) ==
  /\ procs[p].pc = "idle"
  /\ Commit(r.s, FALSE)
  /\ procs' = [procs EXCEPT ![p] = r.l]

\* a suspended invocation takes its next step
Resume(p, pc) ==
  /\ procs[p].pc = pc
  /\ LET r == step(State, procs[p]) IN
       /\ Commit(r.s, FALSE)
       /\ procs' = [procs EXCEPT ![p] = r.l]

\* a whole handler, from its event to its end, with nothing in between
Handle(r, hist) == Commit(run(r).s, hist) /\ UNCHANGED procs

\* a handler that returns without an await
Atomic(s, op, hist) == Commit([s EXCEPT !.last.op = op], hist) /\ UNCHANGED procs

NoneInFlight == \A p \in Procs : procs[p].pc = "idle"

CategoryIds == {categories[i].CategoryID : i \in 1..Len(categories)}
ExistingOrderIds == {orders[i].OrderID : i \in 1..Len(orders)}
Batches(texts) == UNION {[1..n -> texts] : n \in 1..MaxBatch}

\* ---- events whose handlers are followed step by step in Spec
ApprovePress(p, u, o) ==
  Dispatch(p, step(State, adminOrderCallback(State, Idle, u, "approve", o).l))

ApproveReadCategories(p) == Resume(p, "ap_readCategories")
ApproveFindCategory(p) == Resume(p, "ap_findCategory")
ApproveWriteCategory(p) == Resume(p, "ap_writeCategory")
ApproveFindOrder(p) == Resume(p, "ap_findOrder")
ApproveWriteOrder(p) == Resume(p, "ap_writeOrder")

DeclinePress(p, u, o) ==
  Dispatch(p, step(State, adminOrderCallback(State, Idle, u, "decline", o).l))

DeclineWriteOrder(p) == Resume(p, "dc_writeOrder")
DeclineReadOrders(p) == Resume(p, "dc_readOrders")

\* ---- whole handlers
\* a purchase that got to the UTR prompt and is submitted there
SubmitOrder(u, c, q, hist) ==
  /\ Len(orders) < MaxOrders
  /\ QtyButtonCategory(c) = c
  /\ Commit(submitOrderPersist(State, u, UtrSession(c, q), ValidUtr), hist)
  /\ UNCHANGED procs

Approve(u, o) == Handle(adminOrderCallback(State, Idle, u, "approve", o), TRUE)

Decline(u, o) == Handle(adminOrderCallback(State, Idle, u, "decline", o), TRUE)

AdmAddCatPrompt(u) == Atomic(admAddCatPrompt(State, u), "addCatPrompt", TRUE)

AdmCatValue(u, text) ==
  /\ userStates[u].state = "adm_waiting_for_cat_value"
  /\ Atomic(admCatValue(State, u, text), "catValue", TRUE)

AdmCatPrice(u) ==
  /\ userStates[u].state = "adm_waiting_for_cat_price"
  /\ Len(categories) < MaxCats
  /\ Handle(admCatPriceAppend(State, Idle, u, BasePrice), TRUE)

AdmAddStockSelectCat(u, c, hist) ==
  Atomic(admAddStockSelectCat(State, u, c), "addStockSelectCat", hist)

AdmVoucherCodes(u, newCodes, hist) ==
  /\ userStates[u].state = "adm_waiting_for_voucher_codes"
  /\ nextSerial + Len(newCodes) <= MaxCodes + 1
  /\ Handle(admVoucherCodesRead(State, Idle, u, newCodes), hist)

\* message in waiting_for_utr, as part_000 handles it
UtrMessage(u, utr) ==
  /\ userStates[u].state = "waiting_for_utr"
  /\ Commit(utrMessage(State, u, Trim(utr)), TRUE)
  /\ UNCHANGED procs

\* message in waiting_for_utr, as index.js handles it
UtrMessageIndex(u, utr) ==
  /\ userStates[u].state = "waiting_for_utr"
  /\ Len(orders) < MaxOrders
  /\ Commit(utrMessageIndex(State, u, Trim(utr)), TRUE)
  /\ UNCHANGED procs

AdmRemoveStockPrompt(u) == Atomic(admRemoveStockPrompt(State, u), "removeStockPrompt", TRUE)

AdmCodeToRemove(u, code) ==
  /\ userStates[u].state = "adm_waiting_for_code_to_remove"
  /\ Handle(admCodeToRemoveRead(State, Idle, u, code), TRUE)

\* Spec: approvals and declines interleave at every store call they make;
\* the events that fill the sheets are handled in one piece.
Next ==
  \/ \E c \in CategoryIds, q \in 1..MaxQty : SubmitOrder("u1", c, q, FALSE)
  \/ \E p \in Procs, o \in ExistingOrderIds : ApprovePress(p, ADMIN_ID, o)
  \/ \E p \in Procs : ApproveReadCategories(p)
  \/ \E p \in Procs : ApproveFindCategory(p)
  \/ \E p \in Procs : ApproveWriteCategory(p)
  \/ \E p \in Procs : ApproveFindOrder(p)
  \/ \E p \in Procs : ApproveWriteOrder(p)
  \/ \E p \in Procs, o \in ExistingOrderIds : DeclinePress(p, ADMIN_ID, o)
  \/ \E p \in Procs : DeclineWriteOrder(p)
  \/ \E p \in Procs : DeclineReadOrders(p)
  \/ \E c \in CategoryIds : AdmAddStockSelectCat(ADMIN_ID, c, FALSE)
  \/ \E b \in Batches({"A"}) : AdmVoucherCodes(ADMIN_ID, b, FALSE)

Spec == Init /\ [][Next]_vars

\* SeqSpec: the order workflow, one event at a time, each handled to its end.
SeqNext ==
  \/ \E u \in Users, c \in CategoryIds, q \in 1..MaxQty : SubmitOrder(u, c, q, TRUE)
  \/ \E u \in Senders, o \in ExistingOrderIds : Approve(u, o)
  \/ \E u \in Senders, o \in ExistingOrderIds : Decline(u, o)
  \/ \E c \in CategoryIds : AdmAddStockSelectCat(ADMIN_ID, c, TRUE)
  \/ \E b \in Batches({"A"}) : AdmVoucherCodes(ADMIN_ID, b, TRUE)

SeqSpec == Init /\ [][SeqNext]_vars

\* CatalogSpec: the admin's catalog handlers and approvals, one at a time.
CatalogNext ==
  \/ \E c \in CategoryIds, q \in 1..MaxQty : SubmitOrder("u1", c, q, TRUE)
  \/ \E o \in ExistingOrderIds : Approve(ADMIN_ID, o)
  \/ AdmAddCatPrompt(ADMIN_ID)
  \/ \E v \in FaceValues : AdmCatValue(ADMIN_ID, v)
  \/ AdmCatPrice(ADMIN_ID)
  \/ \E c \in CategoryIds : AdmAddStockSelectCat(ADMIN_ID, c, TRUE)
  \/ \E b \in Batches(CodeTexts) : AdmVoucherCodes(ADMIN_ID, b, TRUE)
  \/ AdmRemoveStockPrompt(ADMIN_ID)
  \/ \E t \in CodeTexts : AdmCodeToRemove(ADMIN_ID, t)

CatalogSpec == Init /\ [][CatalogNext]_vars

\* SubmitSpec: users who went through the purchase flow stand at the UTR
\* prompt; their messages, and the admin's decisions and stock.
SubmitInit ==
  /\ categories = <<SheetCategory>>
  /\ orders = <<>>
  /\ users = <<>>
  /\ userStates \in [Senders -> {NoSession} \cup {UtrSession("v100", q) : q \in 1..MaxQty}]
  /\ userStates[ADMIN_ID] = NoSession
  /\ procs = [p \in Procs |-> Idle]
  /\ notified = [o \in OrderIds |-> [user |-> 0, channel |-> 0]]
  /\ nextSerial = 1
  /\ last = NoEvent

SubmitNext ==
  \/ \E u \in Users, t \in UtrTexts : UtrMessage(u, t)
  \/ \E u \in Users, t \in UtrTexts : UtrMessageIndex(u, t)
  \/ \E o \in ExistingOrderIds : Approve(ADMIN_ID, o)
  \/ \E o \in ExistingOrderIds : Decline(ADMIN_ID, o)
  \/ \E c \in CategoryIds : AdmAddStockSelectCat(ADMIN_ID, c, TRUE)
  \/ \E b \in Batches({"A"}) : AdmVoucherCodes(ADMIN_ID, b, TRUE)

SubmitSpec == SubmitInit /\ [][SubmitNext]_vars

\* GuardSpec: approvals of orders that cannot be delivered, one event at a
\* time: unknown and decided orders, short pools, a deleted category, and a
\* store that fails at the order update.
Quantities == 1..MaxQty \cup {BigQty}

\* callback adm_del_cat_confirm_<id>
AdmDelCatConfirm(u, c) == Handle(admDelCatConfirm(State, Idle, u, c), TRUE)

\* an approve whose values.update of the order row is rejected by the store
ApproveStoreError(u, o) ==
  LET r == runTo(adminOrderCallback(State, Idle, u, "approve", o), "ap_writeOrder") IN
  /\ r.l.pc = "ap_writeOrder"
  /\ Commit(approveWriteOrderFails(r.s, r.l).s, TRUE)
  /\ UNCHANGED procs

GuardNext ==
  \/ \E c \in CategoryIds, q \in Quantities : SubmitOrder("u1", c, q, TRUE)
  \/ \E o \in OrderIds : Approve(ADMIN_ID, o)
  \/ \E o \in ExistingOrderIds : ApproveStoreError(ADMIN_ID, o)
  \/ \E o \in ExistingOrderIds : Decline(ADMIN_ID, o)
  \/ \E c \in CategoryIds : AdmAddStockSelectCat(ADMIN_ID, c, TRUE)
  \/ \E b \in Batches({"A"}) : AdmVoucherCodes(ADMIN_ID, b, TRUE)
  \/ \E c \in CategoryIds : AdmDelCatConfirm(ADMIN_ID, c)

GuardSpec == Init /\ [][GuardNext]_vars

\* RecoverSpec: orders of two users are submitted and decided, and both
\* users ask the recovery prompt for order ids, their own and the other's.
RecoveryTexts == OrderIds \cup {"hello"}

RecoverPrompt(u) == Commit(recoverPrompt(State, u), TRUE) /\ UNCHANGED procs

RecoveryMessage(u, text) ==
  /\ userStates[u].state = "waiting_for_recovery_oid"
  /\ Commit(recoveryMessage(State, u, text), TRUE)
  /\ UNCHANGED procs

RecoverNext ==
  \/ \E u \in Users, c \in CategoryIds : SubmitOrder(u, c, 1, TRUE)
  \/ \E o \in ExistingOrderIds : Approve(ADMIN_ID, o)
  \/ \E o \in ExistingOrderIds : Decline(ADMIN_ID, o)
  \/ \E c \in CategoryIds : AdmAddStockSelectCat(ADMIN_ID, c, TRUE)
  \/ \E b \in Batches({"A"}) : AdmVoucherCodes(ADMIN_ID, b, TRUE)
  \/ \E u \in Users : RecoverPrompt(u)
  \/ \E u \in Users, t \in RecoveryTexts : RecoveryMessage(u, t)

RecoverSpec == Init /\ [][RecoverNext]_vars

\* PriceSpec: one category the admin keeps by hand, its tier cells priced,
\* empty or 0 (the cell index.js:464 writes into Price10); user u1 picks
\* quantities by button and at the custom quantity prompt.
TierCells(price) == {"", "0", price}

PricedCategory(p1, p5, p10, p20, stock) ==
  RowOf(CategoryHeaders,
        <<"v100", "100", p1, p1, p1, p1, p5, p10, p20, stock, <<>>>>)

PriceInit ==
  /\ \E p1 \in {"", "50"}, p5 \in TierCells("45"), p10 \in TierCells("40"),
        p20 \in TierCells("35"), stock \in {"3", ToString(3 * BigQty)} :
       categories = <<PricedCategory(p1, p5, p10, p20, stock)>>
  /\ orders = <<>>
  /\ users = <<>>
  /\ userStates = [u \in Senders |-> NoSession]
  /\ procs = [p \in Procs |-> Idle]
  /\ notified = [o \in OrderIds |-> [user |-> 0, channel |-> 0]]
  /\ nextSerial = 1
  /\ last = NoEvent

ButtonQuantities == {1, 5, 10}
TypedQuantities == 1..(2 * BigQty + 5)
QuantityTexts == {NumberText(q) : q \in TypedQuantities} \cup {<<"0">>, <<"a">>}

SelectQty(u, c) == Commit(selectQty(State, u, c), TRUE) /\ UNCHANGED procs

QtyButton(u, n, c) == Commit(qtyButton(State, u, n, c), TRUE) /\ UNCHANGED procs

QtyCustom(u, c) == Commit(qtyCustom(State, u, c), TRUE) /\ UNCHANGED procs

CustomQtyMessage(u, text) ==
  /\ userStates[u].state = "waiting_for_custom_qty_input"
  /\ Commit(customQtyMessage(State, u, text), TRUE)
  /\ UNCHANGED procs

PriceNext ==
  \/ \E c \in CategoryIds : SelectQty("u1", c)
  \/ \E n \in ButtonQuantities, c \in CategoryIds : QtyButton("u1", n, c)
  \/ \E c \in CategoryIds : QtyCustom("u1", c)
  \/ \E t \in QuantityTexts : CustomQtyMessage("u1", t)

PriceSpec == PriceInit /\ [][PriceNext]_vars

\* PartSpec and IndexSpec: sessions.  User u1 and the admin press the
\* buttons and send the commands that open a session, and send messages in
\* every state; PartSpec hands the messages to the listeners of part_000,
\* IndexSpec to the handler of index.js.
StockedCodes == <<Code("A", 1), Code("A", 2), Code("A", 3)>>

\* a category the admin has priced and stocked
StockedCategory ==
  RowOf(CategoryHeaders,
        <<"v100", "100", "50", "50", "50", "50", "45", "40", "35",
          ToString(Len(StockedCodes)), JoinNL(StockedCodes)>>)

SessionInit ==
  /\ categories = <<StockedCategory>>
  /\ orders = <<>>
  /\ users = <<>>
  /\ userStates = [u \in Senders |-> NoSession]
  /\ procs = [p \in Procs |-> Idle]
  /\ notified = [o \in OrderIds |-> [user |-> 0, channel |-> 0]]
  /\ nextSerial = Len(StockedCodes) + 1
  /\ last = NoEvent

\* n1 + n2 of sendCaptcha
CaptchaAnswers == TypedNumbers \cup {12}

Messages ==
  {TextMsg(CancelText), TextMsg(HelloText), TextMsg(ValidUtr), PhotoMsg}
    \cup {TextMsg(NumberText(n)) : n \in TypedNumbers}

\* what the admin types at a prompt
AdminMessages == {TextMsg(HelloText)} \cup {TextMsg(NumberText(n)) : n \in TypedNumbers}

\* parts[4] of a tier button
Tiers == {"5"}

\* /start and the check_join button of a user who is not verified
SendCaptcha(u, a) ==
  /\ Commit([sendCaptcha(State, u, a) EXCEPT !.last.op = "sendCaptcha"], TRUE)
  /\ UNCHANGED procs

SelectCat(u, c) == Commit(selectCat(State, u, c), TRUE) /\ UNCHANGED procs

SubmitProof(u) == Commit(submitProof(State, u), TRUE) /\ UNCHANGED procs

SupportPrompt(u) == Commit(supportPrompt(State, u), TRUE) /\ UNCHANGED procs

AdminPrompt(u, data, c, tier) ==
  Commit(adminPrompt(State, u, data, c, tier), TRUE) /\ UNCHANGED procs

\* the sheets have room for what a message in this state appends
SheetRoom(u) ==
  /\ userStates[u].state = "waiting_for_utr" => Len(orders) < MaxSessionOrders
  /\ userStates[u].state = "adm_waiting_for_cat_price" => Len(categories) < MaxCats
  /\ userStates[u].state = "adm_waiting_for_voucher_codes" => nextSerial <= MaxCodes + 1

\* a message to part_000
PartMessage(u, m, a) ==
  /\ SheetRoom(u)
  /\ Commit(partMessage(State, u, m, a), TRUE)
  /\ UNCHANGED procs

\* a message to index.js
IndexMessage(u, m, a) ==
  /\ SheetRoom(u)
  /\ Commit(indexMessage(State, u, m, a), TRUE)
  /\ UNCHANGED procs

PartNext ==
  \/ \E a \in CaptchaAnswers : SendCaptcha("u1", a)
  \/ \E c \in CategoryIds : SelectQty("u1", c)
  \/ \E n \in ButtonQuantities, c \in CategoryIds : QtyButton("u1", n, c)
  \/ \E c \in CategoryIds : QtyCustom("u1", c)
  \/ SubmitProof("u1")
  \/ RecoverPrompt("u1")
  \/ SupportPrompt("u1")
  \/ AdmAddCatPrompt(ADMIN_ID)
  \/ \E m \in Messages, a \in CaptchaAnswers : PartMessage("u1", m, a)
  \/ \E m \in AdminMessages, a \in CaptchaAnswers : PartMessage(ADMIN_ID, m, a)

PartSpec == SessionInit /\ [][PartNext]_vars

IndexNext ==
  \/ \E c \in CategoryIds : SelectCat("u1", c)
  \/ \E n \in ButtonQuantities, c \in CategoryIds : QtyButton("u1", n, c)
  \/ \E c \in CategoryIds : QtyCustom("u1", c)
  \/ SubmitProof("u1")
  \/ RecoverPrompt("u1")
  \/ SupportPrompt("u1")
  \/ AdmAddCatPrompt(ADMIN_ID)
  \/ \E c \in CategoryIds : AdmAddStockSelectCat(ADMIN_ID, c, TRUE)
  \/ AdmRemoveStockPrompt(ADMIN_ID)
  \/ \E d \in AdminPrompts, c \in CategoryIds, t \in Tiers : AdminPrompt(ADMIN_ID, d, c, t)
  \/ \E m \in Messages, a \in CaptchaAnswers : IndexMessage("u1", m, a)
  \/ \E m \in AdminMessages, a \in CaptchaAnswers : IndexMessage(ADMIN_ID, m, a)

IndexSpec == SessionInit /\ [][IndexNext]_vars

\* GateSpec: the admin's buttons of index.js pressed by the admin and by
\* user u1, and the messages both send afterwards.
GateUsers == {"u1", ADMIN_ID}

GateNext ==
  \/ \E u \in GateUsers : AdmAddCatPrompt(u)
  \/ \E u \in GateUsers, c \in CategoryIds : AdmAddStockSelectCat(u, c, TRUE)
  \/ \E u \in GateUsers : AdmRemoveStockPrompt(u)
  \/ \E u \in GateUsers, d \in AdminPrompts, c \in CategoryIds, t \in Tiers :
       AdminPrompt(u, d, c, t)
  \/ \E u \in GateUsers, m \in AdminMessages, a \in CaptchaAnswers : IndexMessage(u, m, a)

GateSpec == SessionInit /\ [][GateNext]_vars

\* CaptchaSpec: two users start, press check_join as channel members, and
\* answer the captcha of index.js with right and wrong texts.
Start(u) == Commit(start(State, u), TRUE) /\ UNCHANGED procs

CaptchaNext ==
  \/ \E u \in Users : Start(u)
  \/ \E u \in Users, a \in CaptchaAnswers : SendCaptcha(u, a)
  \/ \E u \in Users, m \in Messages, a \in CaptchaAnswers : IndexMessage(u, m, a)

CaptchaSpec == Init /\ [][CaptchaNext]_vars

\* StockSpec: one priced category with k codes in stock, under an id the
\* admin gave by hand (v100) or the id add-category makes (cat_500); user u1
\* picks quantities by button and at the custom quantity prompt.
StockedRow(id, k) ==
  RowOf(CategoryHeaders,
        <<id, "100", "50", "50", "50", "50", "45", "40", "35", ToString(k),
          JoinNL([i \in 1..k |-> Code("A", i)])>>)

StockInit ==
  /\ \E id \in {"v100"} \cup {"cat_" \o v : v \in FaceValues}, k \in 0..BigQty :
       /\ categories = <<StockedRow(id, k)>>
       /\ nextSerial = k + 1
  /\ orders = <<>>
  /\ users = <<>>
  /\ userStates = [u \in Senders |-> NoSession]
  /\ procs = [p \in Procs |-> Idle]
  /\ notified = [o \in OrderIds |-> [user |-> 0, channel |-> 0]]
  /\ last = NoEvent

StockSpec == StockInit /\ [][PriceNext]_vars

\* NotFoundSpec: user u1 selects a category from a list sent earlier, picks
\* quantities, submits orders and asks for recovery, while the admin
\* declines orders and deletes the category.
ListedIds == {"v100"}

NotFoundNext ==
  \/ \E c \in ListedIds : AdmDelCatConfirm(ADMIN_ID, c)
  \/ \E c \in CategoryIds : SubmitOrder("u1", c, 1, TRUE)
  \/ \E o \in ExistingOrderIds : Decline(ADMIN_ID, o)
  \/ \E c \in ListedIds : SelectCat("u1", c)
  \/ \E c \in ListedIds : SelectQty("u1", c)
  \/ \E n \in ButtonQuantities, c \in ListedIds : QtyButton("u1", n, c)
  \/ \E c \in ListedIds : QtyCustom("u1", c)
  \/ \E t \in QuantityTexts : CustomQtyMessage("u1", t)
  \/ RecoverPrompt("u1")
  \/ \E t \in RecoveryTexts : RecoveryMessage("u1", t)

NotFoundSpec == Init /\ [][NotFoundNext]_vars

\* FrameSpec: user u1 is verified, buys and asks for recovery while the
\* admin decides orders, broadcasts, writes to users and blocks them.
UserPrompts == {"adm_bc_prompt", "adm_dm_prompt", "adm_block_prompt"}

FrameNext ==
  \/ \E a \in CaptchaAnswers : SendCaptcha("u1", a)
  \/ \E c \in CategoryIds : SelectCat("u1", c)
  \/ \E c \in CategoryIds : QtyButton("u1", 1, c)
  \/ SubmitProof("u1")
  \/ RecoverPrompt("u1")
  \/ \E d \in UserPrompts : AdminPrompt(ADMIN_ID, d, "", "")
  \/ \E o \in ExistingOrderIds : Approve(ADMIN_ID, o)
  \/ \E o \in ExistingOrderIds : Decline(ADMIN_ID, o)
  \/ \E m \in Messages, a \in CaptchaAnswers : IndexMessage("u1", m, a)
  \/ \E m \in AdminMessages, a \in CaptchaAnswers : IndexMessage(ADMIN_ID, m, a)

FrameSpec == SessionInit /\ [][FrameNext]_vars


\* BlockSpec: users verify themselves by captcha while the admin blocks and
\* unblocks them by their ids.
\* the admin's message at the block prompt whose text is the id of target
BlockMessage(u, target) ==
  /\ userStates[u].state = "adm_waiting_for_block_id"
  /\ Commit(Took(blockUser([State EXCEPT !.userStates[u] = NoSession], u, target),
                 "adminBlock"), TRUE)
  /\ UNCHANGED procs

BlockNext ==
  \/ \E u \in Users : Start(u)
  \/ \E u \in Users, a \in CaptchaAnswers : SendCaptcha(u, a)
  \/ \E u \in Users, m \in Messages, a \in CaptchaAnswers : IndexMessage(u, m, a)
  \/ AdminPrompt(ADMIN_ID, "adm_block_prompt", "", "")
  \/ \E t \in Users : BlockMessage(ADMIN_ID, t)

BlockSpec == Init /\ [][BlockNext]_vars


\* VerifySpec: users ask for captchas and answer them; a read of the Users
\* sheet may fail.
MaxUserRows == 3

CaptchaReadFails(u) ==
  /\ userStates[u].state = "waiting_for_captcha"
  /\ Len(users) < MaxUserRows
  /\ Commit(Took(captchaMessageReadFails(State, u), "captcha"), TRUE)
  /\ UNCHANGED procs

VerifyNext ==
  \/ \E u \in Users, a \in CaptchaAnswers : SendCaptcha(u, a)
  \/ \E u \in Users, m \in Messages, a \in CaptchaAnswers : IndexMessage(u, m, a)
  \/ \E u \in Users : CaptchaReadFails(u)

VerifySpec == Init /\ [][VerifyNext]_vars


\* FlightSpec: users at the UTR prompt send their UTR and go on sending
\* messages while the submission waits for the store.
UtrSend(p, u, t) ==
  /\ userStates[u].state = "waiting_for_utr"
  /\ procs[p].pc = "idle"
  /\ LET r == utrMessageIndexBegin(State, Idle, u, Trim(t)) IN
       /\ Commit(r.s, TRUE)
       /\ procs' = [procs EXCEPT ![p] = r.l]

SubmitAppend(p) ==
  /\ procs[p].pc = "so_append"
  /\ Len(orders) < MaxOrders
  /\ LET r == step(State, procs[p]) IN
       /\ Commit(r.s, TRUE)
       /\ procs' = [procs EXCEPT ![p] = r.l]

\* a message in any other state than the UTR prompt
OtherMessage(u, m, a) ==
  /\ userStates[u].state # "waiting_for_utr"
  /\ IndexMessage(u, m, a)

FlightNext ==
  \/ \E p \in Procs, u \in Users, t \in UtrTexts : UtrSend(p, u, t)
  \/ \E p \in Procs : SubmitAppend(p)
  \/ \E u \in Users, m \in Messages, a \in CaptchaAnswers : OtherMessage(u, m, a)

FlightSpec == SubmitInit /\ [][FlightNext]_vars


\* ResumeSpec: user u1 picks a quantity by button and, while the handler
\* waits for the Categories sheet, opens the recovery or the support prompt
\* or sends a message.
QtyPress(p, u, n, c) ==
  /\ procs[p].pc = "idle"
  /\ LET r == qtyButtonBegin(State, Idle, u, n, c) IN
       /\ Commit([r.s EXCEPT !.last.op = "qtyPress"], TRUE)
       /\ procs' = [procs EXCEPT ![p] = r.l]

QtyResume(p) ==
  /\ procs[p].pc = "pq_getRows"
  /\ LET r == step(State, procs[p]) IN
       /\ Commit(r.s, TRUE)
       /\ procs' = [procs EXCEPT ![p] = r.l]

ResumeNext ==
  \/ \E c \in CategoryIds : SelectQty("u1", c)
  \/ \E p \in Procs, n \in ButtonQuantities, c \in CategoryIds : QtyPress(p, "u1", n, c)
  \/ \E p \in Procs : QtyResume(p)
  \/ RecoverPrompt("u1")
  \/ SupportPrompt("u1")
  \/ \E m \in Messages, a \in CaptchaAnswers : PartMessage("u1", m, a)

ResumeSpec == SessionInit /\ [][ResumeNext]_vars


\* DeleteSpec: the admin adds categories, stocks them and deletes them.
DeleteNext ==
  \/ AdmAddCatPrompt(ADMIN_ID)
  \/ \E v \in FaceValues : AdmCatValue(ADMIN_ID, v)
  \/ AdmCatPrice(ADMIN_ID)
  \/ \E c \in CategoryIds : AdmAddStockSelectCat(ADMIN_ID, c, TRUE)
  \/ \E b \in Batches(CodeTexts) : AdmVoucherCodes(ADMIN_ID, b, TRUE)
  \/ \E c \in CategoryIds : AdmDelCatConfirm(ADMIN_ID, c)

DeleteSpec == Init /\ [][DeleteNext]_vars


\* AddSpec: on an empty Categories sheet the admin adds categories and
\* stocks them.
EmptyInit ==
  /\ categories = <<>>
  /\ orders = <<>>
  /\ users = <<>>
  /\ userStates = [u \in Senders |-> NoSession]
  /\ procs = [p \in Procs |-> Idle]
  /\ notified = [o \in OrderIds |-> [user |-> 0, channel |-> 0]]
  /\ nextSerial = 1
  /\ last = NoEvent

AddNext ==
  \/ AdmAddCatPrompt(ADMIN_ID)
  \/ \E v \in FaceValues : AdmCatValue(ADMIN_ID, v)
  \/ AdmCatPrice(ADMIN_ID)
  \/ \E c \in CategoryIds : AdmAddStockSelectCat(ADMIN_ID, c, TRUE)
  \/ \E b \in Batches(CodeTexts) : AdmVoucherCodes(ADMIN_ID, b, TRUE)

AddSpec == EmptyInit /\ [][AddNext]_vars

\* ------------------------------------------------------------ properties
Pool(cat) == SplitCodes(cat.VoucherCodes)
Delivered(order) == SplitCodes(order.VoucherCodeDelivered)
OrderOf(o) == orders[FindIndex(orders, "OrderID", o)]
CategoryOf(c) == categories[FindIndex(categories, "CategoryID", c)]

\* C1: under interleaved approvals of different Pending orders, an approval
\* that writes a category's pool releases no more codes than the pool holds
\* at the moment of that write (so two approvals whose quantities exceed
\* the pool never both succeed).
C1_NoOverAllocation ==
  [][\A p \in Procs :
       (/\ procs[p].pc = "ap_writeCategory"
        /\ procs'[p].pc # "ap_writeCategory"
        /\ OrderOf(procs[p].orderId).Status = "Pending"
        /\ \A r \in Procs \ {p} : procs[r].orderId # procs[p].orderId)
         => Len(procs[p].released) <= Len(Pool(categories[procs[p].idx]))]_vars

\* C2: no code instance taken from a pool is in the delivered codes of two
\* different orders.
C2_DeliveredDisjoint ==
  \A i, j \in 1..Len(orders) :
    i # j => Ids(Delivered(orders[i])) \cap Ids(Delivered(orders[j])) = {}

\* C3: an approve of an order that an earlier approve made Successful is
\* rejected as already processed; it leaves every category's stock and pool,
\* the order and the count of notifications as they were.
C3_SecondApproveRejected ==
  [][\A o \in ExistingOrderIds :
       (OrderOf(o).Status = "Successful" /\ Approve(ADMIN_ID, o))
         => /\ last'.res = "notFoundOrProcessed"
            /\ Msg(ADMIN_ID, "notFoundOrProcessed", o, <<>>) \in last'.sent
            /\ UNCHANGED <<categories, orders, notified>>]_vars

\* C3 witness: the admin approved an order twice; it was delivered once and
\* the second approve has just been turned away.
C3_Witness ==
  /\ last.op = "approve"
  /\ last.res = "notFoundOrProcessed"
  /\ last.orderId \in ExistingOrderIds
  /\ OrderOf(last.orderId).Status = "Successful"
  /\ notified[last.orderId].user = 1

\* C4: for every order the approval message with the codes goes to the
\* order's user at most once, and the channel notification at most once.
C4_NotifiedOnce ==
  \A o \in OrderIds : notified[o].user <= 1 /\ notified[o].channel <= 1

\* C5: once an order is Successful or Declined, no step changes its status
\* or its delivered codes.
C5_DecidedOnce ==
  [][\A i \in 1..Len(orders) :
       orders[i].Status # "Pending"
         => /\ orders'[i].Status = orders[i].Status
            /\ orders'[i].VoucherCodeDelivered = orders[i].VoucherCodeDelivered]_vars

\* C6: an order has delivered codes exactly when it is Successful, and then
\* as many as its quantity.
C6_DeliveredIffSuccessful ==
  \A i \in 1..Len(orders) :
    /\ (Len(Delivered(orders[i])) > 0) <=> (orders[i].Status = "Successful")
    /\ orders[i].Status = "Successful"
         => ToString(Len(Delivered(orders[i]))) = orders[i].Quantity

\* C7: after every completed add category, add stock, remove code and
\* approve, each category's Stock is the number of codes in its pool.
C7_StockIsPoolSize ==
  \A i \in 1..Len(categories) :
    categories[i].Stock = ToString(Len(Pool(categories[i])))

\* C8: an approve that makes a Pending order of quantity q Successful, on a
\* category whose pool is c1..cn, has n >= q, writes c1..cq in that order to
\* the order, leaves c(q+1)..cn in that order in the pool and sets Stock to
\* n - q.
C8_ApproveFifo ==
  [][\A o \in ExistingOrderIds :
       (OrderOf(o).Status = "Pending" /\ Approve(ADMIN_ID, o)
          /\ orders'[FindIndex(orders, "OrderID", o)].Status = "Successful")
         => LET i == FindIndex(orders, "OrderID", o)
                c == FindIndex(categories, "CategoryID", orders[i].Category)
                pool == Pool(categories[c])
                n == Len(pool)
                q == StrNum(orders[i].Quantity)
            IN /\ c > 0
               /\ n >= q
               /\ Delivered(orders'[i]) = [k \in 1..q |-> pool[k]]
               /\ orders'[i].VoucherCodeDelivered = JoinNL([k \in 1..q |-> pool[k]])
               /\ Pool(categories'[c]) = [k \in 1..(n - q) |-> pool[q + k]]
               /\ categories'[c].Stock = ToString(n - q)
               /\ \A d \in 1..Len(categories) : d # c => categories'[d] = categories[d]]_vars

\* C8 witness: an approve has just delivered two codes out of a pool of
\* three, and one code is left.
C8_Witness ==
  /\ last.op = "approve"
  /\ last.res = "delivered"
  /\ Len(Delivered(OrderOf(last.orderId))) = 2
  /\ Len(Pool(CategoryOf(OrderOf(last.orderId).Category))) = 1

\* a message at the UTR prompt, handled by either file
SubmitStep ==
  \E u \in Users, t \in UtrTexts : UtrMessage(u, t) \/ UtrMessageIndex(u, t)

\* C9: a submission leaves every category row as it was, and with any
\* number of Pending orders a pool changes only when an approve delivers or
\* the admin adds stock.
C9_SubmitLeavesStock ==
  [][/\ SubmitStep => categories' = categories
     /\ categories' # categories
          => \/ \E o \in ExistingOrderIds :
                  /\ Approve(ADMIN_ID, o)
                  /\ OrderOf(o).Status = "Pending"
                  /\ orders'[FindIndex(orders, "OrderID", o)].Status = "Successful"
             \/ \E b \in Batches({"A"}) : AdmVoucherCodes(ADMIN_ID, b, TRUE)]_vars

\* C9 witness: an order has just been submitted and is Pending, on a
\* category that holds stock, and the stock is all there.
C9_Witness ==
  /\ last.op = "submit"
  /\ last.res = "pending"
  /\ OrderOf(last.orderId).Status = "Pending"
  /\ Len(Pool(CategoryOf(OrderOf(last.orderId).Category))) = MaxCodes
  /\ CategoryOf(OrderOf(last.orderId).Category).Stock = ToString(MaxCodes)

\* C10: a decline of a Pending order sets its status to Declined, leaves
\* its delivered codes empty and every category row as it was, and sends
\* the order's user the decline message.
C10_DeclinePending ==
  [][\A o \in ExistingOrderIds :
       (OrderOf(o).Status = "Pending" /\ Decline(ADMIN_ID, o))
         => LET i == FindIndex(orders, "OrderID", o) IN
            /\ orders'[i].Status = "Declined"
            /\ orders'[i].VoucherCodeDelivered = <<>>
            /\ categories' = categories
            /\ Msg(orders[i].UserID, "orderDeclined", o, <<>>) \in last'.sent]_vars

\* C10 witness: a Pending order of u2 has just been declined while its
\* category holds stock.
C10_Witness ==
  /\ last.op = "decline"
  /\ last.res = "declined"
  /\ OrderOf(last.orderId).Status = "Declined"
  /\ OrderOf(last.orderId).UserID = "u2"
  /\ Delivered(OrderOf(last.orderId)) = <<>>
  /\ Msg("u2", "orderDeclined", last.orderId, <<>>) \in last.sent
  /\ Len(Pool(CategoryOf(OrderOf(last.orderId).Category))) > 0

\* an approve that may not deliver: the order is missing or decided, its
\* category is missing, or the pool holds fewer codes than the quantity
Undeliverable(o) ==
  \/ o \notin ExistingOrderIds
  \/ OrderOf(o).Status # "Pending"
  \/ OrderOf(o).Category \notin CategoryIds
  \/ Len(Pool(CategoryOf(OrderOf(o).Category))) < StrNum(OrderOf(o).Quantity)

ApprovalMessages(sent) == {m \in sent : m.kind = "orderApproved"}

\* C11: an approve of an order that is missing or not Pending, whose
\* category is missing, or whose pool holds fewer codes than its quantity,
\* leaves the order row and every category row as they were and sends no
\* approval message to anyone.
C11_ApproveFailsClosed ==
  [][\A o \in OrderIds :
       (Undeliverable(o) /\ Approve(ADMIN_ID, o))
         => /\ orders' = orders
            /\ categories' = categories
            /\ notified' = notified
            /\ ApprovalMessages(last'.sent) = {}
            /\ last'.res \in {"notFoundOrProcessed", "stockLow", "insufficientCodes"}]_vars

\* C11 witness: an approve of a Pending order for ten codes has just been
\* turned away at the count of the codes, the pool holding two; the order
\* is still Pending without codes and the pool is whole.
C11_Witness ==
  /\ last.op = "approve"
  /\ last.res = "insufficientCodes"
  /\ OrderOf(last.orderId).Status = "Pending"
  /\ OrderOf(last.orderId).Quantity = ToString(BigQty)
  /\ Delivered(OrderOf(last.orderId)) = <<>>
  /\ Len(Pool(CategoryOf(OrderOf(last.orderId).Category))) = 2
  /\ ApprovalMessages(last.sent) = {}

\* C12: when approve has written the category and the store rejects the
\* write of the order's status, the user is not sent the codes, the admin
\* is not told the order is approved, and a message to the admin flags the
\* inconsistency.
C12_FailedOrderWriteFlagged ==
  [][\A o \in ExistingOrderIds :
       ApproveStoreError(ADMIN_ID, o)
         => /\ ApprovalMessages(last'.sent) = {}
            /\ Msg(ADMIN_ID, "approved", o, <<>>) \notin last'.sent
            /\ \E m \in last'.sent : m.to = ADMIN_ID /\ m.orderId = o]_vars

\* C13: a message at the recovery prompt is answered to its sender only;
\* the answer carries codes only when the sender created the order and the
\* order is Successful (then the order's delivered codes), carries a status
\* only when the sender created the order, and is the order-not-found reply
\* for an order of another user whatever its status.
C13_RecoveryOwnerOnly ==
  [][\A u \in Users, t \in RecoveryTexts :
       RecoveryMessage(u, t)
         => /\ \A m \in last'.sent :
                 /\ m.to = u
                 /\ m.kind # "orderNotFound"
                      => /\ t \in ExistingOrderIds
                         /\ OrderOf(t).UserID = u
                         /\ m.kind = "vouchersFound"
                              <=> OrderOf(t).Status = "Successful"
                         /\ m.kind = "vouchersFound"
                              => m.codes = OrderOf(t).VoucherCodeDelivered
                         /\ m.kind # "vouchersFound"
                              => m.codes = <<>> /\ m.kind = "status:" \o OrderOf(t).Status
            /\ (t \in ExistingOrderIds /\ OrderOf(t).UserID # u)
                 => last'.sent = {Msg(u, "orderNotFound", t, <<>>)}]_vars

\* C13 witness: a user has just asked for a Successful order of the other
\* user, which holds a delivered code, and got the order-not-found reply
\* and nothing else; the asker's session is gone.
C13_Witness ==
  /\ last.op = "recover"
  /\ last.res = "orderNotFound"
  /\ last.orderId \in ExistingOrderIds
  /\ OrderOf(last.orderId).Status = "Successful"
  /\ Len(Delivered(OrderOf(last.orderId))) = 1
  /\ \E u \in Users :
       /\ OrderOf(last.orderId).UserID # u
       /\ last.sent = {Msg(u, "orderNotFound", last.orderId, <<>>)}
       /\ userStates[u] = NoSession

\* a text of exactly twelve decimal digits
TwelveDigits(text) == Len(text) = 12 /\ \A k \in 1..Len(text) : IsDigit(text[k])

\* C14: a message at the UTR prompt whose trimmed text is not exactly
\* twelve decimal digits creates no order, is answered with the invalid-UTR
\* prompt and leaves the session at the UTR prompt.
C14_UtrTwelveDigits ==
  [][\A u \in Users, t \in UtrTexts :
       ((UtrMessage(u, t) \/ UtrMessageIndex(u, t)) /\ ~TwelveDigits(Trim(t)))
         => /\ orders' = orders
            /\ Msg(u, "invalidUtr", "", <<>>) \in last'.sent
            /\ userStates'[u] = userStates[u]]_vars

\* C15: a message of twelve digits at the UTR prompt adds exactly one order
\* row, Pending and without codes, with the sender and the category,
\* quantity and total of the session; the admin is sent the new order and
\* the session is removed.
C15_ValidUtrCreatesOrder ==
  [][\A u \in Users, t \in UtrTexts :
       ((UtrMessage(u, t) \/ UtrMessageIndex(u, t)) /\ TwelveDigits(Trim(t)))
         => /\ Len(orders') = Len(orders) + 1
            /\ SubSeq(orders', 1, Len(orders)) = orders
            /\ LET row == orders'[Len(orders')] IN
                 /\ row.Status = "Pending"
                 /\ row.VoucherCodeDelivered = <<>>
                 /\ row.UserID = u
                 /\ row.Category = userStates[u].categoryId
                 /\ row.Quantity = ToString(userStates[u].qty)
                 /\ row.Total = userStates[u].totalCost
                 /\ Msg(ADMIN_ID, "newOrder", row.OrderID, <<>>) \in last'.sent
            /\ userStates'[u] = NoSession]_vars

\* user u picks quantity q, by button or at the custom quantity prompt
QuantityStep(u, q) ==
  \/ CustomQtyMessage(u, NumberText(q))
  \/ q \in ButtonQuantities /\ QtyButton(u, q, "v100")

\* the category has stock for every quantity asked and the tier prices
\* 1 -> 50, 5 -> 45, 10 -> 40, 20Plus -> 35
FullyPriced ==
  /\ categories[1].Price1 = "50"
  /\ categories[1].Price5 = "45"
  /\ categories[1].Price10 = "40"
  /\ categories[1].Price20Plus = "35"
  /\ categories[1].Stock = ToString(3 * BigQty)

TierRupees(q) ==
  IF q >= 20 THEN 35 ELSE IF q >= 10 THEN 40 ELSE IF q >= 5 THEN 45 ELSE 50

\* C16: with tier prices 1 -> 50, 5 -> 45, 10 -> 40 and 20Plus -> 35, a
\* quantity q is charged q times the price of the tier chosen by the
\* thresholds q >= 20, q >= 10, q >= 5 and else tier 1 (50 for 4, 45 for 5
\* and 9, 40 for 10, 35 for 25), and the session goes to the payment proof
\* with that quantity and total.
C16_TierThresholds ==
  [][\A q \in TypedQuantities :
       (FullyPriced /\ QuantityStep("u1", q))
         => /\ userStates'["u1"].state = "waiting_for_proof"
            /\ userStates'["u1"].qty = q
            /\ userStates'["u1"].totalCost = ToFixed2(100 * TierRupees(q) * q)
            /\ q = 4 => userStates'["u1"].totalCost = "200.00"
            /\ q = 5 => userStates'["u1"].totalCost = "225.00"
            /\ q = 9 => userStates'["u1"].totalCost = "405.00"
            /\ q = 10 => userStates'["u1"].totalCost = "400.00"
            /\ q = 25 => userStates'["u1"].totalCost = "875.00"]_vars

\* C16 witness: on the fully priced category a quantity of 25 has just been
\* charged 875.00, 35 a code.
C16_Witness ==
  /\ FullyPriced
  /\ last.op = "processQuantity"
  /\ last.res = "paymentRequired"
  /\ userStates["u1"].state = "waiting_for_proof"
  /\ userStates["u1"].qty = 25
  /\ userStates["u1"].totalCost = "875.00"

\* the tier columns at and below the tier of a quantity, highest first
TiersAtOrBelow(q) ==
  IF q >= 20 THEN <<"Price20Plus", "Price10", "Price5", "Price1">>
  ELSE IF q >= 10 THEN <<"Price10", "Price5", "Price1">>
  ELSE IF q >= 5 THEN <<"Price5", "Price1">>
  ELSE <<"Price1">>

\* a tier cell that holds a price: a number above 0
HasPrice(cat, col) == ~ParseFloat(cat[col]).nan /\ ParseFloat(cat[col]).val > 0

\* C17: a quantity is charged at the highest tier at or below its own that
\* has a price; only when none of them has one is the reply that pricing
\* is not set, and then the step does not take the session to the payment
\* proof.
C17_TierFallback ==
  [][\A q \in TypedQuantities :
       (QuantityStep("u1", q) /\ ~JsNumGreater(q, categories[1].Stock))
         => LET cat == categories[1]
                cols == TiersAtOrBelow(q)
                priced == {k \in 1..Len(cols) : HasPrice(cat, cols[k])}
            IN IF priced = {}
               THEN /\ Msg("u1", "pricingNotSet", "v100", <<>>) \in last'.sent
                    /\ userStates'["u1"].state = "waiting_for_proof"
                         => userStates'["u1"] = userStates["u1"]
               ELSE LET k == CHOOSE k \in priced : \A j \in priced : k <= j IN
                    /\ userStates'["u1"].state = "waiting_for_proof"
                    /\ userStates'["u1"].totalCost =
                         ToFixed2(ParseFloat(cat[cols[k]]).val * q)]_vars

\* a session with a state in it
ActiveSession(u) == userStates[u].state \notin {"none", Undefined}

\* the history of a message that exactly one state handler took
StateHandlerTags ==
  {"captcha", "customQty", "screenshot", "utr", "recovery", "support",
   "adminCatValue", "adminCatPrice", "adminVoucherCodes", "adminCodeToRemove",
   "adminBroadcast", "adminDmTarget", "adminDmMessage", "adminBlock"}

\* one state handler took the message; the catch-all listener may have
\* failed on a message without text
OneStateHandler(res) ==
  \E t \in StateHandlerTags : res \in {t, t \o "+TypeError"}

\* /cancel and the admin's /msg, which are looked at before the state
Interrupt(m) == ~m.photo /\ (m.text = CancelText \/ StartsWithMsg(m.text))

\* C18: a message that arrives for a user whose session has an active state
\* is processed by exactly one state handler, and the reply "I don't
\* understand" with the main menu is not sent, whatever the state is.
C18_OneHandlerNoDefault ==
  [][\A u \in Senders, m \in Messages, a \in CaptchaAnswers :
       (ActiveSession(u) /\ ~Interrupt(m) /\ PartMessage(u, m, a))
         => /\ OneStateHandler(last'.res)
            /\ Msg(u, "dontUnderstand", "", <<>>) \notin last'.sent]_vars

\* C19: in every active state a /cancel message removes the user's session,
\* and no state handler reads it as its input.
C19_CancelEndsSession ==
  [][\A u \in Senders, a \in CaptchaAnswers :
       (ActiveSession(u) /\ PartMessage(u, TextMsg(CancelText), a))
         => /\ userStates'[u] = NoSession
            /\ last'.res = "cancel"]_vars

\* C20: in every state the program sets, a message is taken by a handler of
\* that state and leads to another state, to a reply that keeps the state,
\* or to the removal of the session.
C20_EveryStateHandled ==
  [][\A u \in Senders, m \in Messages, a \in CaptchaAnswers :
       (ActiveSession(u) /\ ~Interrupt(m) /\ IndexMessage(u, m, a))
         => /\ last'.res \in StateHandlerTags
            /\ \/ userStates'[u] = NoSession
               \/ userStates'[u].state # userStates[u].state
               \/ \E r \in last'.sent : r.to = u]_vars

\* the states the admin's prompts wait in
AdminState(state) ==
  state \in {"adm_waiting_for_cat_value", "adm_waiting_for_cat_price",
             "adm_waiting_for_voucher_codes", "adm_waiting_for_code_to_remove",
             "adm_waiting_for_stock_cat_select", "adm_waiting_for_tier_selection",
             "adm_waiting_for_tier_price_input", "adm_waiting_for_broadcast_message",
             "adm_waiting_for_dm_target_id", "adm_waiting_for_dm_message",
             "adm_waiting_for_block_id"}

\* C21: a session in one of the admin's states belongs to the admin: no
\* event from another user puts that user's session into such a state.
C21_AdminStatesOfAdminOnly ==
  \A u \in Users : ~AdminState(userStates[u].state)

\* an admin button of index.js pressed by u
AdminButton(u) ==
  \/ AdmAddCatPrompt(u)
  \/ \E c \in CategoryIds : AdmAddStockSelectCat(u, c, TRUE)
  \/ AdmRemoveStockPrompt(u)
  \/ \E d \in AdminPrompts, c \in CategoryIds, t \in Tiers : AdminPrompt(u, d, c, t)

\* C22: an admin action invoked by a user who is not the admin changes no
\* category, no order and no session, and is answered with access denied.
C22_NonAdminDenied ==
  [][\A u \in Users :
       AdminButton(u)
         => /\ UNCHANGED <<categories, orders, users, userStates>>
            /\ Msg(u, "accessDenied", "", <<>>) \in last'.sent]_vars

\* m is read as the answer the session of u expects
RightAnswer(u, m) ==
  ~ParseInt(m.text).nan /\ ParseInt(m.text).val = userStates[u].answer

\* C23: after a wrong answer the session stays in waiting_for_captcha with
\* a new expected answer, and the answer of the challenge before is not
\* the expected one any more.
C23_OldAnswerNotReusable ==
  [][\A u \in Users, m \in Messages, a \in CaptchaAnswers :
       (/\ userStates[u].state = "waiting_for_captcha"
        /\ ~RightAnswer(u, m)
        /\ IndexMessage(u, m, a))
         => /\ userStates'[u].state = "waiting_for_captcha"
            /\ userStates'[u].answer # userStates[u].answer]_vars

\* the rows of the Users sheet that belong to u
UserRows(rows, u) == {i \in 1..Len(rows) : rows[i].UserID = u}

\* C24: for a user without a Users row who is in waiting_for_captcha, a
\* message equal to the expected answer creates one Users row for the user
\* with Status Active and Verified Yes, removes the session and shows the
\* main menu.
C24_RightAnswerCreatesUser ==
  [][\A u \in Users, a \in CaptchaAnswers :
       (/\ userStates[u].state = "waiting_for_captcha"
        /\ UserRows(users, u) = {}
        /\ IndexMessage(u, TextMsg(NumberText(userStates[u].answer)), a))
         => /\ Cardinality(UserRows(users', u)) = 1
            /\ \A i \in UserRows(users', u) :
                 users'[i].Status = "Active" /\ users'[i].Verified = "Yes"
            /\ \A i \in 1..Len(users) : users'[i] = users[i]
            /\ userStates'[u] = NoSession
            /\ Msg(u, "mainMenu", "", <<>>) \in last'.sent]_vars

\* the second user to be verified has answered the captcha
C24_Witness ==
  /\ last.op = "message"
  /\ last.res = "captcha"
  /\ Msg("u2", "verified", "", <<>>) \in last.sent
  /\ Len(users) = 2
  /\ users[2].UserID = "u2"
  /\ userStates["u2"] = NoSession

\* user u asks for q codes of the category in the sheet, by its quantity
\* button or at the custom quantity prompt
AsksQuantity(u, q) ==
  \/ CustomQtyMessage(u, NumberText(q))
  \/ /\ q \in ButtonQuantities
     /\ userStates[u].state = "waiting_for_qty_input"
     /\ userStates[u].categoryId = categories[1].CategoryID
     /\ QtyButton(u, q, categories[1].CategoryID)

\* C25: when the quantity asked for exceeds the stock of the category, no
\* payment prompt is sent and the session ends in the quantity selection
\* state for that category: it is neither removed nor taken to the payment
\* proof.
C25_ShortStockKeepsSelection ==
  [][\A q \in TypedQuantities :
       (JsNumGreater(q, categories[1].Stock) /\ AsksQuantity("u1", q))
         => /\ Msg("u1", "paymentRequired", categories[1].CategoryID, <<>>) \notin last'.sent
            /\ userStates'["u1"].state = "waiting_for_qty_input"
            /\ userStates'["u1"].categoryId = categories[1].CategoryID]_vars

\* m is not the input the state of u waits for
InvalidInput(u, m) ==
  LET state == userStates[u].state
      n == ParseInt(m.text)
  IN \/ state = "waiting_for_custom_qty_input" /\ (n.nan \/ n.val <= 0)
     \/ state = "waiting_for_screenshot" /\ ~m.photo
     \/ state = "waiting_for_utr" /\ (m.photo \/ ~UtrAccepted(Trim(m.text)))
     \/ /\ u = ADMIN_ID
        /\ state \in {"adm_waiting_for_cat_value", "adm_waiting_for_cat_price"}
        /\ (n.nan \/ n.val <= 0)
     \/ /\ u = ADMIN_ID
        /\ state \in {"adm_waiting_for_dm_target_id", "adm_waiting_for_block_id"}
        /\ n.nan

\* C26: invalid input at the custom quantity, screenshot, UTR and admin
\* number prompts leaves the session as it is, is answered with a prompt to
\* try again, and the handler ends without an exception, also for a message
\* without text.
C26_InvalidInputReprompts ==
  [][\A u \in Senders, m \in Messages, a \in CaptchaAnswers :
       (InvalidInput(u, m) /\ IndexMessage(u, m, a))
         => /\ userStates'[u] = userStates[u]
            /\ \E r \in last'.sent : r.to = u
            /\ last'.res # "TypeError"]_vars

NoCategory(c) == FindIndex(categories, "CategoryID", c) = 0

\* C27: when the category selected is not in the sheet, at the selection
\* or when the quantity is processed, or the order id given for recovery is
\* not found, the user is told so and the user's session is removed.
C27_NotFoundClearsSession ==
  [][/\ \A c \in ListedIds :
          (NoCategory(c) /\ SelectCat("u1", c))
            => /\ Msg("u1", "categoryNotFound", c, <<>>) \in last'.sent
               /\ userStates'["u1"] = NoSession
     /\ \A c \in ListedIds, n \in ButtonQuantities :
          (NoCategory(c) /\ QtyButton("u1", n, c))
            => /\ Msg("u1", "categoryDataMissing", c, <<>>) \in last'.sent
               /\ userStates'["u1"] = NoSession
     /\ \A t \in RecoveryTexts :
          (FindIndex(orders, "OrderID", t) = 0 /\ RecoveryMessage("u1", t))
            => /\ Msg("u1", "orderNotFound", t, <<>>) \in last'.sent
               /\ userStates'["u1"] = NoSession]_vars

\* an event of FrameSpec sent by u
EventFrom(u) ==
  \/ \E a \in CaptchaAnswers : SendCaptcha(u, a)
  \/ \E c \in CategoryIds : SelectCat(u, c)
  \/ \E c \in CategoryIds : QtyButton(u, 1, c)
  \/ SubmitProof(u)
  \/ RecoverPrompt(u)
  \/ \E d \in UserPrompts : AdminPrompt(u, d, "", "")
  \/ \E o \in ExistingOrderIds : Approve(u, o)
  \/ \E o \in ExistingOrderIds : Decline(u, o)
  \/ \E m \in Messages, a \in CaptchaAnswers : IndexMessage(u, m, a)

TierHeaders ==
  {"Price1", "Price2", "Price3", "Price4", "Price5", "Price10", "Price20Plus"}

\* C29: when the admin completes add category with a face value v and a
\* base price p > 0, the Categories sheet has one more row, the category
\* cat_v of value v, whose price tiers 1, 2, 3, 4, 5, 10 and 20Plus are all
\* p, whose Stock is 0 and whose pool of codes is empty.
C29_NewCategoryDefaults ==
  [][AdmCatPrice(ADMIN_ID)
       => /\ Len(categories') = Len(categories) + 1
          /\ LET row == categories'[Len(categories')]
             IN /\ row.CategoryID = "cat_" \o userStates[ADMIN_ID].temp_cat_value
                /\ row.Value = userStates[ADMIN_ID].temp_cat_value
                /\ \A h \in TierHeaders : row[h] = BasePrice
                /\ row.Stock = "0"
                /\ Pool(row) = <<>>]_vars

Texts(codes) == [k \in 1..Len(codes) |-> codes[k].txt]

\* C30: add stock of a list of k codes to an existing category leaves the
\* codes of the pool in place, puts the k codes after them in the order
\* they were given, duplicates included, and makes Stock k more than it
\* was; when the category is not in the sheet no row changes.
C30_AppendCodes ==
  [][\A b \in Batches(CodeTexts) :
       AdmVoucherCodes(ADMIN_ID, b, TRUE)
         => LET i == FindIndex(categories, "CategoryID",
                               userStates[ADMIN_ID].categoryId)
            IN IF i = 0 THEN categories' = categories
               ELSE /\ Len(categories') = Len(categories)
                    /\ \A j \in (1..Len(categories)) \ {i} :
                         categories'[j] = categories[j]
                    /\ Pool(categories'[i]) =
                         Pool(categories[i]) \o
                           SubSeq(Pool(categories'[i]),
                                  Len(Pool(categories[i])) + 1,
                                  Len(Pool(categories'[i])))
                    /\ Texts(Pool(categories'[i])) = Texts(Pool(categories[i])) \o b
                    /\ IsNumStr(categories[i].Stock)
                    /\ categories'[i].Stock =
                         ToString(StrNum(categories[i].Stock) + Len(b))]_vars

\* codes without the element at position k
RemoveAt(codes, k) == SubSeq(codes, 1, k - 1) \o SubSeq(codes, k + 1, Len(codes))

FirstMatch(codes, t) == CHOOSE k \in 1..Len(codes) :
                          codes[k].txt = t /\ \A j \in 1..(k - 1) : codes[j].txt # t

\* C31: remove code with a code held by some pool takes exactly one
\* occurrence, the first equal one, out of the first pool that holds it and
\* makes that category's Stock one less; every other code and every other
\* category stays as it was. With a code no pool holds it answers code not
\* found and changes no row.
C31_RemoveOneCode ==
  [][\A t \in CodeTexts :
       AdmCodeToRemove(ADMIN_ID, t)
         => LET i == FirstHolding(categories, t)
            IN IF i = 0
               THEN categories' = categories /\ last'.res = "codeNotFound"
               ELSE /\ Len(categories') = Len(categories)
                    /\ \A j \in (1..Len(categories)) \ {i} :
                         categories'[j] = categories[j]
                    /\ Pool(categories'[i]) =
                         RemoveAt(Pool(categories[i]), FirstMatch(Pool(categories[i]), t))
                    /\ categories'[i].Stock = JsMinusStr(categories[i].Stock, 1)]_vars

Quiescent == \A p \in Procs : procs[p].pc = "idle"

InSomePool(id) == \E i \in 1..Len(categories) : id \in Ids(Pool(categories[i]))

DeliveredBySuccessful(id) ==
  \E i \in 1..Len(orders) :
    orders[i].Status = "Successful" /\ id \in Ids(Delivered(orders[i]))

DeliveredAnywhere(id) ==
  \E i \in 1..Len(orders) : id \in Ids(Delivered(orders[i]))

\* C32: under every interleaving of approvals, declines and add stock, once
\* no handler is suspended, every code the admin added is either still in
\* the pool or in the delivered codes of a Successful order, and no code in
\* the delivered codes of an order is still in a pool.
C32_CodesConserved ==
  Quiescent =>
    \A id \in 1..(nextSerial - 1) :
      /\ InSomePool(id) \/ DeliveredBySuccessful(id)
      /\ ~(InSomePool(id) /\ DeliveredAnywhere(id))

CarriesPayment(st) == st.categoryId # "" /\ st.qty > 0 /\ st.totalCost # ""

\* C33: a session at the screenshot prompt or at the UTR prompt carries the
\* category, quantity and total of a payment prompt before it: the
\* submit_proof button pressed in any state but waiting_for_proof, or with
\* no session, neither moves the session to the screenshot prompt nor
\* raises an exception.
C33_ProofOnlyAfterPayment ==
  [][\A u \in Users :
       /\ userStates'[u].state \in {"waiting_for_screenshot", "waiting_for_utr"}
            => CarriesPayment(userStates'[u])
       /\ (SubmitProof(u) /\ userStates[u].state # "waiting_for_proof")
            => /\ userStates'[u].state # "waiting_for_screenshot"
               /\ last'.res # "TypeError"]_vars

\* C34: the category id put in a quantity button's callback data is the id
\* the quantity-button handler works on, for every id the program creates
\* (cat_<value>): a 1, 5 or 10 button looks up, prices and answers for the
\* category of the button, and the Custom button keeps that category in
\* the session.
C34_ButtonKeepsCategory ==
  [][\A c \in CategoryIds :
       /\ QtyCustom("u1", c) => userStates'["u1"].categoryId = c
       /\ \A n \in ButtonQuantities :
            QtyButton("u1", n, c)
              => /\ \A r \in last'.sent : r.orderId = c
                 /\ userStates'["u1"].categoryId \in {"", c}]_vars

StatusOf(rows, u) ==
  IF UserRows(rows, u) = {} THEN "" ELSE rows[CHOOSE i \in UserRows(rows, u) : TRUE].Status

\* C35: a user whose Status is Blocked becomes Active only by the admin's
\* block/unblock message for that user: no event of the user's own (the
\* verify button of an earlier welcome and a right captcha answer included)
\* changes the Status from Blocked to Active.
C35_BlockedStaysBlocked ==
  [][\A u \in Users :
       (StatusOf(users, u) = "Blocked" /\ StatusOf(users', u) = "Active")
         => BlockMessage(ADMIN_ID, u)]_vars

\* C36: the Users sheet never holds two rows with the same UserID, whatever
\* users verify themselves and also when a read of the sheet fails during a
\* verification.
C36_OneRowPerUser ==
  \A i, j \in 1..Len(users) : users[i].UserID = users[j].UserID => i = j

OrdersOf(u) == {i \in 1..Len(orders) : orders[i].UserID = u}

Submitting(u) == {p \in Procs : procs[p].pc = "so_append" /\ procs[p].from = u}

C38_ResumeKeepsLaterSession ==
  [][\A p \in Procs :
       (/\ QtyResume(p)
        /\ last.op \in {"recoverPrompt", "supportPrompt"}
        /\ userStates[procs[p].from].state \in {"waiting_for_recovery_oid", "in_support_mode"})
         => userStates'[procs[p].from].state \notin {"waiting_for_proof", "waiting_for_qty_input"}]_vars

\* rows.filter(row => row.CategoryID !== id)
WithoutCategory(rows, id) == SelectSeq(rows, LAMBDA row : row.CategoryID # id)

\* C39: deleting a category takes exactly the rows of that category out of
\* the Categories sheet; every other row stays, with its prices, Stock and
\* codes, in its place.
C39_DeleteOnlyThatRow ==
  [][\A c \in CategoryIds :
       AdmDelCatConfirm(ADMIN_ID, c) => categories' = WithoutCategory(categories, c)]_vars

\* C40: no two rows of the Categories sheet have the same CategoryID; add
\* category with a face value that already has a category makes no second
\* row with that id.
C40_CategoryIdsDistinct ==
  \A i, j \in 1..Len(categories) :
    categories[i].CategoryID = categories[j].CategoryID => i = j
====
